---- MODULE Spec2Model ----
(***************************************************************************)
(* A model of the go-zenoss client (package zenoss): one client value      *)
(* shared by the goroutines in Procs, each of which calls the public       *)
(* operations of the Client interface one after the other.  A call runs    *)
(* through doRequest once per HTTP exchange: nextTid under the mutex, the  *)
(* request handed to http.Client.Do, and the exchange's outcome, which the *)
(* remote side (and the caller's context) decide.                          *)
(* The older client of the repository, which has AddEvent only, is         *)
(* modelled next to it by steps of its own (LegacySpec).                   *)
(***************************************************************************)
EXTENDS Integers, Sequences, FiniteSets, TLC

VARIABLES
    made,       \* the arguments NewClient was called with
    conf,       \* client.url, client.username, client.password, client.monitor
    tid,        \* client.tid
    mTid,       \* client.mTid: the goroutine holding the mutex, or NoProc
    pc,         \* where each goroutine stands in its current call
    op,         \* the public operation each goroutine is in (or was last in)
    arg,        \* the arguments of that call
    ctxDone,    \* whether the ctx of the current call has been cancelled
    request,    \* doRequest's request: the envelope being (or last) sent
    err,        \* err: the error doRequest returned last in this call
    res,        \* res / resp: the last decoded result-only response
    read,       \* read / dev: the last decoded device read response
    prop,       \* prop / readResponse: the last decoded custom property read response
    response,   \* the embedded response of the last decoded response: its envelope
    r,          \* CreateDevice's r: poll reads completed
    ret,        \* what the last call returned
    sent,       \* per goroutine, the requests its current call handed to client.Do
    issued,     \* the ids nextTid has returned, in order of return
    waits,      \* how often the current call has entered CreateDevice's select
    zeroSoFar,  \* whether every poll response before `read` reported zero matches
    calls,      \* calls each goroutine may still start
    remote,     \* what the remote side may answer with, and how many requests it takes
    heard,      \* when runs are compared: what the remote side and the caller did to the call
    first       \* when runs are compared: the call of the first run and how it ended

vars == <<made, conf, tid, mTid, pc, op, arg, ctxDone, request, err, res, read, prop,
          response, r, ret, sent, issued, waits, zeroSoFar, calls, remote, heard, first>>

----
\* Bounds of the model.
MaxCalls == 1
MaxSeqCalls == 2
MaxTid == 4

\* A loop that gives up one read later.
PollLimitSix == 5 + 1

\* The polls of CreateDevice that may find nothing before it gives up:
\* `if r > 5`.
PollLimit == 5

Procs == {"g1", "g2"}
NoProc == "none"

UIDs == {"u1", "u2"}
Names == {"n1"}
PropIds == {"cValue"}
PropValues == {"15"}
States == {300}

----
\* Errors.  An error value is its message, the set of errors errors.Is finds
\* in its chain, the entity its message names, and the response envelope its
\* message prints (the zero envelope when it prints none).
NoResponse == [UUID |-> "", Action |-> "", Method |-> "", Tid |-> 0]

Nil == [msg |-> "nil", is |-> {}, of |-> "", resp |-> NoResponse]

\* fmt.Errorf("msg")
New(msg) == [msg |-> msg, is |-> {msg}, of |-> "", resp |-> NoResponse]

\* fmt.Errorf("msg %s", name)
Named(msg, name) == [msg |-> msg, is |-> {msg}, of |-> name, resp |-> NoResponse]

\* fmt.Errorf("msg: %w", e)
Wrap(msg, e) == [msg |-> msg, is |-> {msg} \cup e.is, of |-> "", resp |-> e.resp]

\* fmt.Errorf("msg: %s", e)
Flatten(msg, e) == [msg |-> msg, is |-> {msg}, of |-> "", resp |-> e.resp]

\* fmt.Errorf("msg: %+v", resp) of a response struct: response.String()
\* prints the envelope.
Printed(msg, resp) == [msg |-> msg, is |-> {msg}, of |-> "", resp |-> resp]

Canceled == New("context canceled")
NetError == New("connection refused")
JsonError == New("invalid character")

----
\* Construction.

\* A construction that keeps the path as it was given.
KeepSuffix(path) == path

\* strings.CutSuffix(u.Path, "/zport/dmd"), the path a sequence of segments
CutSuffix(path) ==
    LET n == Len(path)
    IN  IF n >= 2 /\ path[n - 1] = "zport" /\ path[n] = "dmd"
        THEN SubSeq(path, 1, n - 2)
        ELSE path

NewClient(baseURI, username, password, monitor) ==
    [url |-> [host |-> baseURI.host, path |-> CutSuffix(baseURI.path)],
     username |-> username, password |-> password, monitor |-> monitor]

\* The base URI of the tests' scenario.
BaseURI == [host |-> "zenoss.example", path |-> <<"zport", "dmd">>]

\* Base URIs a client may be built with: at the root or under a path of the
\* host, with the API suffix, without it, and with it twice.
BaseURIs ==
    { [host |-> "zenoss.example", path |-> q] :
        q \in { <<>>, <<"zport", "dmd">>, <<"zport", "dmd", "zport", "dmd">>,
                <<"zenoss">>, <<"zenoss", "zport", "dmd">> } }

\* Credentials a client may be built with.
Usernames == {"", "user"}
Passwords == {"", "secret"}

----
\* Router paths, actions and methods.
pathPropertiesRouter == "properties_router"
pathDeviceRouter == "device_router"
pathEvconsoleRouter == "evconsole_router"

actionDeviceRoute == "DeviceRouter"
actionPropertiesRouter == "PropertiesRouter"
actionEventsRouter == "EventsRouter"

methodGetDevices == "getDevices"
methodAddDevice == "addDevice"
methodRemoveDevices == "removeDevices"
methodSetInfo == "setInfo"
methodGetCustomProperties == "getCustomProperties"
methodUpdateCustomProperty == "update"
methodDeleteCustomProperty == "remove"
methodAddEvent == "add_event"

Ops == {"AddEvent", "ReadDevice", "CreateDevice", "DeleteDevice",
        "UpdateDeviceProductionState", "ReadCustomProperty",
        "DeleteCustomProperty", "UpdateCustomProperty"}

\* The request value of the operations: action, method, the one payload
\* object, the router path it goes to; Tid is set by doRequest.
Request(action, method, data, path) ==
    [Action |-> action, Method |-> method, Data |-> <<data>>, Tid |-> 0,
     path |-> path]

NoRequest == Request("", "", [none |-> TRUE], "")

\* Decoded responses.  Go zeroes a target before decoding into it.
NoResult == [Success |-> FALSE]
NoRead == [Success |-> FALSE, Count |-> 0, Hash |-> "", Devices |-> <<>>]

\* What the remote side may answer.
Results == [Success : BOOLEAN]

\* deviceReadResult
ReadResult(success, count, hash, devices) ==
    [Success |-> success, Count |-> count, Hash |-> hash, Devices |-> devices]

\* The read results of the model: no, one and two devices with the matching
\* totalCount, the results whose totalCount and device list disagree, and
\* the unsuccessful ones.
ReadResults ==
    { ReadResult(TRUE, 0, "h1", <<>>),
      ReadResult(TRUE, 1, "h1", <<"d1">>),
      ReadResult(TRUE, 1, "h2", <<"d2">>),
      ReadResult(TRUE, 2, "h1", <<"d1", "d2">>),
      ReadResult(TRUE, 1, "h1", <<>>),
      ReadResult(TRUE, 2, "h2", <<>>),
      ReadResult(TRUE, 0, "h1", <<"d1">>),
      ReadResult(TRUE, 0, "h2", <<"d1", "d2">>),
      ReadResult(TRUE, 1, "h1", <<"d1", "d2">>),
      ReadResult(TRUE, 2, "h2", <<"d2">>),
      ReadResult(FALSE, 0, "h2", <<>>),
      ReadResult(FALSE, 1, "h1", <<"d1">>),
      ReadResult(FALSE, 2, "h1", <<"d1", "d2">>) }

\* The read results of the runs with several goroutines.
LeanReadResults ==
    { ReadResult(TRUE, 0, "h1", <<>>),
      ReadResult(TRUE, 1, "h1", <<"d1">>),
      ReadResult(TRUE, 1, "h2", <<"d2">>),
      ReadResult(FALSE, 2, "h2", <<"d1", "d2">>) }

NoValue == "nil"
NoReturn == [err |-> Nil, val |-> NoValue]

\* No runs are compared.
NoFirst ==
    [compare |-> FALSE, taken |-> FALSE, op |-> "none", arg |-> [none |-> TRUE],
     heard |-> <<>>, ret |-> NoReturn, sent |-> <<>>]

\* Custom properties the remote side may list.
PropLists == { <<>>, <<[Id |-> "cValue", Value |-> "15"]>>,
               <<[Id |-> "cValue", Value |-> "15"], [Id |-> "cOther", Value |-> "7"]>> }

\* The property read results of the model: those whose totalCount and list
\* agree, successful or not, and the successful ones that list more or fewer
\* properties than a totalCount of zero or one says.
PropResults ==
    { x \in [Success : BOOLEAN, Count : 0..2, Data : PropLists] :
        \/ x.Count = Len(x.Data)
        \/ x.Success /\ x.Count < 2 }

NoProp == [Success |-> FALSE, Count |-> 0, Data |-> <<>>]

\* The property read results of the runs with several goroutines.
LeanPropResults ==
    { [Success |-> TRUE, Count |-> 0, Data |-> <<>>],
      [Success |-> TRUE, Count |-> 1, Data |-> <<[Id |-> "cValue", Value |-> "15"]>>] }

----
\* The state of a client just constructed, no call started.
Started ==
    /\ tid = 0
    /\ mTid = NoProc
    /\ pc = [p \in Procs |-> "idle"]
    /\ op = [p \in Procs |-> "none"]
    /\ arg = [p \in Procs |-> [none |-> TRUE]]
    /\ ctxDone = [p \in Procs |-> FALSE]
    /\ request = [p \in Procs |-> NoRequest]
    /\ err = [p \in Procs |-> Nil]
    /\ res = [p \in Procs |-> NoResult]
    /\ read = [p \in Procs |-> NoRead]
    /\ prop = [p \in Procs |-> NoProp]
    /\ response = [p \in Procs |-> NoResponse]
    /\ heard = [p \in Procs |-> <<>>]
    /\ r = [p \in Procs |-> 0]
    /\ ret = [p \in Procs |-> NoReturn]
    /\ sent = [p \in Procs |-> <<>>]
    /\ issued = <<>>
    /\ waits = [p \in Procs |-> 0]
    /\ zeroSoFar = [p \in Procs |-> TRUE]

\* The client of the tests' scenario.
InitClient ==
    /\ made = [baseURI |-> BaseURI, username |-> "user", password |-> "secret",
               monitor |-> "mon"]
    /\ conf = NewClient(BaseURI, "user", "secret", "mon")
    /\ Started
    /\ first = NoFirst

\* One goroutine uses the client, call after call.
Init ==
    /\ InitClient
    /\ calls = [p \in Procs |-> IF p = "g1" THEN MaxSeqCalls ELSE 0]
    /\ remote = [reads |-> ReadResults, props |-> PropResults, envelopes |-> {"echo"},
                 requests |-> (PollLimit + 2) * MaxSeqCalls]

\* One goroutine uses the client for MaxCalls calls.
InitOne ==
    /\ InitClient
    /\ calls = [p \in Procs |-> IF p = "g1" THEN MaxCalls ELSE 0]
    /\ remote = [reads |-> ReadResults, props |-> PropResults, envelopes |-> {"echo"},
                 requests |-> (PollLimit + 2) * MaxCalls]

\* One goroutine makes one call on the client, which is heard and kept as
\* the first of two runs; the remote side echoes each request's envelope.
InitPair ==
    /\ made = [baseURI |-> BaseURI, username |-> "user", password |-> "secret",
               monitor |-> "mon"]
    /\ conf = NewClient(BaseURI, "user", "secret", "mon")
    /\ Started
    /\ first = [NoFirst EXCEPT !.compare = TRUE]
    /\ calls = [p \in Procs |-> IF p = "g1" THEN 1 ELSE 0]
    /\ remote = [reads |-> LeanReadResults, props |-> LeanPropResults, envelopes |-> {"echo"},
                 requests |-> PollLimit + 2]

\* The same, the remote side answering property reads with any of
\* PropResults: unsuccessful ones, and ones with no or several matches.
InitPairProps ==
    /\ made = [baseURI |-> BaseURI, username |-> "user", password |-> "secret",
               monitor |-> "mon"]
    /\ conf = NewClient(BaseURI, "user", "secret", "mon")
    /\ Started
    /\ first = [NoFirst EXCEPT !.compare = TRUE]
    /\ calls = [p \in Procs |-> IF p = "g1" THEN 1 ELSE 0]
    /\ remote = [reads |-> LeanReadResults, props |-> PropResults, envelopes |-> {"echo"},
                 requests |-> PollLimit + 2]

\* One goroutine uses a client built with any base URI and credentials.
InitBuilt ==
    /\ \E baseURI \in BaseURIs, username \in Usernames, password \in Passwords :
          /\ made = [baseURI |-> baseURI, username |-> username,
                     password |-> password, monitor |-> "mon"]
          /\ conf = NewClient(baseURI, username, password, "mon")
    /\ Started
    /\ first = NoFirst
    /\ calls = [p \in Procs |-> IF p = "g1" THEN MaxCalls ELSE 0]
    /\ remote = [reads |-> LeanReadResults, props |-> LeanPropResults, envelopes |-> {"echo"},
                 requests |-> (PollLimit + 2) * MaxCalls]

\* Several goroutines share the client.
InitConc ==
    /\ InitClient
    /\ calls = [p \in Procs |-> MaxCalls]
    /\ remote = [reads |-> LeanReadResults, props |-> LeanPropResults, envelopes |-> {"echo"},
                 requests |-> MaxTid]

----
\* doRequest.

\* A client whose nextTid takes no lock.
MutexIgnored == TRUE

\* sync.Mutex.Lock returns once no goroutine holds the mutex.
MutexFree == mTid = NoProc

\* nextTid: api.mTid.Lock(); api.tid = api.tid + 1
nextTid(p) ==
    /\ pc[p] = "nextTid"
    /\ MutexFree
    /\ tid < remote.requests
    /\ mTid' = p
    /\ tid' = tid + 1
    /\ pc' = [pc EXCEPT ![p] = "locked"]
    /\ UNCHANGED <<first, heard, made, conf, response, op, arg, ctxDone, request, err,
                   res, read, prop, r, ret, sent, issued, waits, zeroSoFar, calls,
                   remote>>

\* fmt.Sprintf("%s/zport/dmd/%s", z.url, routerPath)
Target(url, routerPath) ==
    [host |-> url.host, path |-> url.path \o <<"zport", "dmd", routerPath>>]

\* req.SetBasicAuth(username, password): the header value, which encodes
\* both strings, empty or not.
SetBasicAuth(username, password) == <<"Basic", username, password>>

\* The HTTP request doRequest builds from its request: the target URL, the
\* Basic Auth credentials set on it, and the body.
HttpRequest(req) ==
    [url |-> Target(conf.url, req.path),
     header |-> ("Authorization" :> SetBasicAuth(conf.username, conf.password))
                @@ ("Content-Type" :> "application/json"),
     body |-> [action |-> req.Action, method |-> req.Method,
               data |-> req.Data, tid |-> req.Tid]]

\* A doRequest that attaches the counter's value before the increment.
doRequestStale(p) ==
    /\ pc[p] = "locked"
    /\ mTid' = IF mTid = p THEN NoProc ELSE mTid
    /\ request' = [request EXCEPT ![p].Tid = tid - 1]
    /\ issued' = Append(issued, tid - 1)
    /\ sent' = [sent EXCEPT ![p] = Append(@, HttpRequest(request'[p]))]
    /\ pc' = [pc EXCEPT ![p] = "flight"]
    /\ UNCHANGED <<first, heard, made, conf, response, tid, op, arg, ctxDone, err, res,
                   read, prop, r, ret, waits, zeroSoFar, calls, remote>>

\* A doRequest that goes on to client.Do with the mutex still locked.
doRequestLocked(p) ==
    /\ pc[p] = "locked"
    /\ mTid' = mTid
    /\ request' = [request EXCEPT ![p].Tid = tid]
    /\ issued' = Append(issued, tid)
    /\ sent' = [sent EXCEPT ![p] = Append(@, HttpRequest(request'[p]))]
    /\ pc' = [pc EXCEPT ![p] = "flight"]
    /\ UNCHANGED <<first, heard, made, conf, response, tid, op, arg, ctxDone, err, res,
                   read, prop, r, ret, waits, zeroSoFar, calls, remote>>

\* nextTid: return api.tid, and the deferred Unlock; then doRequest up to
\* z.client.Do(req).
doRequest(p) ==
    /\ pc[p] = "locked"
    /\ mTid' = IF mTid = p THEN NoProc ELSE mTid
    /\ request' = [request EXCEPT ![p].Tid = tid]
    /\ issued' = Append(issued, tid)
    /\ sent' = [sent EXCEPT ![p] = Append(@, HttpRequest(request'[p]))]
    /\ pc' = [pc EXCEPT ![p] = "flight"]
    /\ UNCHANGED <<first, heard, made, conf, response, tid, op, arg, ctxDone, err, res,
                   read, prop, r, ret, waits, zeroSoFar, calls, remote>>

\* The envelope of a response to req: the remote side echoes the request's
\* action, method and tid next to a uuid of its own, or answers with other
\* values.
Envelope(kind, req) ==
    IF kind = "echo"
    THEN [UUID |-> "uuid", Action |-> req.Action, Method |-> req.Method, Tid |-> req.Tid]
    ELSE [UUID |-> "", Action |-> "OtherRouter", Method |-> "other", Tid |-> req.Tid + 1]

\* What a call gets from outside while it runs: no response, a body that
\* does not decode, a body with a result object (its envelope left aside), or
\* the cancellation of its context.
NoBody == [kind |-> "none", result |-> <<>>]
BrokenBody == [kind |-> "broken", result |-> <<>>]
Body(a) == [kind |-> "json", result |-> <<a>>]
Cancelled == [kind |-> "cancel", result |-> <<>>]

\* The record of these, kept only where runs are compared.
Hear(h, event) == IF first.compare THEN Append(h, event) ELSE h

\* Exchanges of a client that takes a response whose tid is not the
\* request's for an error.
ExchangesCheckingTid(p, answers, zero) ==
    IF ctxDone[p]
    THEN { [err |-> Flatten("error calling Zenoss", Canceled), target |-> zero,
            response |-> NoResponse, body |-> NoBody],
           [err |-> Wrap("unable to parse response from Zenoss", Canceled), target |-> zero,
            response |-> NoResponse, body |-> BrokenBody] }
    ELSE { [err |-> Flatten("error calling Zenoss", NetError), target |-> zero,
            response |-> NoResponse, body |-> NoBody],
           [err |-> Wrap("unable to parse response from Zenoss", JsonError), target |-> zero,
            response |-> NoResponse, body |-> BrokenBody] }
         \cup { IF Envelope(e, request[p]).Tid = request[p].Tid
                THEN [err |-> Nil, target |-> a, response |-> Envelope(e, request[p]),
                      body |-> Body(a)]
                ELSE [err |-> New("unexpected tid in response from Zenoss"), target |-> zero,
                      response |-> Envelope(e, request[p]), body |-> Body(a)] :
                    a \in answers, e \in remote.envelopes }

\* How an exchange may end: client.Do fails (the context's cancellation
\* included), the body does not decode (its read fails once the context is
\* cancelled), or the body decodes to one of `answers`.
Exchanges(p, answers, zero) ==
    IF ctxDone[p]
    THEN { [err |-> Flatten("error calling Zenoss", Canceled), target |-> zero,
            response |-> NoResponse, body |-> NoBody],
           [err |-> Wrap("unable to parse response from Zenoss", Canceled), target |-> zero,
            response |-> NoResponse, body |-> BrokenBody] }
    ELSE { [err |-> Flatten("error calling Zenoss", NetError), target |-> zero,
            response |-> NoResponse, body |-> NoBody],
           [err |-> Wrap("unable to parse response from Zenoss", JsonError), target |-> zero,
            response |-> NoResponse, body |-> BrokenBody] }
         \cup { [err |-> Nil, target |-> a, response |-> Envelope(e, request[p]),
                 body |-> Body(a)] :
                    a \in answers, e \in remote.envelopes }

\* The caller cancels the context of a running call.
Cancel(p) ==
    /\ pc[p] # "idle"
    /\ ~ctxDone[p]
    /\ ctxDone' = [ctxDone EXCEPT ![p] = TRUE]
    /\ heard' = [heard EXCEPT ![p] = Hear(@, Cancelled)]
    /\ UNCHANGED <<first, made, conf, response, tid, mTid, pc, op, arg, request, err,
                   res, read, prop, r, ret, sent, issued, waits, zeroSoFar, calls,
                   remote>>

\* A call starts: the frame of the previous call is gone.
Enter(p, o, a) ==
    /\ pc[p] = "idle"
    /\ calls[p] > 0
    /\ calls' = [calls EXCEPT ![p] = @ - 1]
    /\ op' = [op EXCEPT ![p] = o]
    /\ arg' = [arg EXCEPT ![p] = a]
    /\ ctxDone' = [ctxDone EXCEPT ![p] = FALSE]
    /\ err' = [err EXCEPT ![p] = Nil]
    /\ res' = [res EXCEPT ![p] = NoResult]
    /\ read' = [read EXCEPT ![p] = NoRead]
    /\ prop' = [prop EXCEPT ![p] = NoProp]
    /\ heard' = [heard EXCEPT ![p] = <<>>]
    /\ response' = [response EXCEPT ![p] = NoResponse]
    /\ r' = [r EXCEPT ![p] = 0]
    /\ sent' = [sent EXCEPT ![p] = <<>>]
    /\ waits' = [waits EXCEPT ![p] = 0]
    /\ zeroSoFar' = [zeroSoFar EXCEPT ![p] = TRUE]

\* The call goes on to doRequest with req.
Send(p, req) ==
    /\ request' = [request EXCEPT ![p] = req]
    /\ pc' = [pc EXCEPT ![p] = "nextTid"]

\* The call returns.
Return(p, e, v) ==
    /\ ret' = [ret EXCEPT ![p] = [err |-> e, val |-> v]]
    /\ pc' = [pc EXCEPT ![p] = "idle"]

----
\* AddEvent.

\* A Go string: what it says and its len().
Str(text, len) == [text |-> text, len |-> len]

\* The extraData maps of the model.
ExtraDatas ==
    { <<>>,
      [k \in {"prop1", "prop2"} |-> Str("value", 5)],
      [k \in {"summary", "prop1"} |-> Str("value", 5)] }

\* The AddEvent calls of the model: every length at its ceiling, and one or
\* all of them one above it.
EventInputs ==
    LET at == [summary |-> Str("summary", 255), message |-> Str("message", 4095),
               device |-> Str("device", 6), component |-> Str("component", 255),
               severity |-> Str("Critical", 8), evClass |-> Str("/Prometheus", 11),
               evKey |-> Str("key", 127), extraData |-> <<>>]
    IN  { [at EXCEPT !.extraData = x] : x \in ExtraDatas }
        \cup { [at EXCEPT !.summary.len = 256], [at EXCEPT !.message.len = 4096],
                [at EXCEPT !.component.len = 256], [at EXCEPT !.evKey.len = 128],
                [at EXCEPT !.summary.len = 256, !.message.len = 4096,
                           !.component.len = 256, !.evKey.len = 128] }

\* A payload in which the fixed fields win over extraData's entries.
EventDataFixedFirst(a) ==
    LET d == [summary |-> a.summary, message |-> a.message, device |-> a.device,
              component |-> a.component, monitor |-> Str(conf.monitor, 3),
              severity |-> a.severity, eventKey |-> a.evKey,
              evclasskey |-> Str("", 0), evclass |-> a.evClass]
    IN  [k \in DOMAIN d \cup DOMAIN a.extraData |->
            IF k \in DOMAIN d THEN d[k] ELSE a.extraData[k]]

\* The payload map d: the fixed fields, then extraData's entries over them.
EventData(a) ==
    LET d == [summary |-> a.summary, message |-> a.message, device |-> a.device,
              component |-> a.component, monitor |-> Str(conf.monitor, 3),
              severity |-> a.severity, eventKey |-> a.evKey,
              evclasskey |-> Str("", 0), evclass |-> a.evClass]
    IN  [k \in DOMAIN d \cup DOMAIN a.extraData |->
            IF k \in DOMAIN a.extraData THEN a.extraData[k] ELSE d[k]]

\* Length checks that forget the event key.
EventValidationWithoutKey(a) ==
    IF a.summary.len > 255 THEN New("'summary' must be less than 255")
    ELSE IF a.message.len > 4095 THEN New("'message' must be less than 4096 characters")
    ELSE IF a.component.len > 255 THEN New("'component' must be less than 255")
    ELSE Nil

\* The length checks of AddEvent: the error of the first that fails, or Nil.
EventValidation(a) ==
    IF a.summary.len > 255 THEN New("'summary' must be less than 255")
    ELSE IF a.message.len > 4095 THEN New("'message' must be less than 4096 characters")
    ELSE IF a.component.len > 255 THEN New("'component' must be less than 255")
    ELSE IF a.evKey.len > 127 THEN New("'evKey' must be less than 127")
    ELSE Nil

\* An AddEvent that takes a transaction id before it validates.
AddEventCounted(p) ==
    \E a \in EventInputs :
        /\ Enter(p, "AddEvent", a)
        /\ IF EventValidation(a) # Nil
           THEN /\ Return(p, EventValidation(a), NoValue)
                /\ tid' = tid + 1
                /\ UNCHANGED request
           ELSE /\ Send(p, Request(actionEventsRouter, methodAddEvent,
                                    EventData(a), pathEvconsoleRouter))
                /\ UNCHANGED <<ret, tid>>
        /\ UNCHANGED <<first, made, conf, mTid, issued, remote>>

\* AddEvent up to its doRequest.
AddEvent(p) ==
    \E a \in EventInputs :
        /\ Enter(p, "AddEvent", a)
        /\ IF EventValidation(a) # Nil
           THEN /\ Return(p, EventValidation(a), NoValue)
                /\ UNCHANGED request
           ELSE /\ Send(p, Request(actionEventsRouter, methodAddEvent,
                                    EventData(a), pathEvconsoleRouter))
                /\ UNCHANGED ret
        /\ UNCHANGED <<first, made, conf, tid, mTid, issued, remote>>

\* An AddEvent that does not look at the response's success flag.
AddEventDoneUnchecked(p) ==
    /\ pc[p] = "flight"
    /\ op[p] = "AddEvent"
    /\ \E x \in Exchanges(p, Results, NoResult) :
        /\ err' = [err EXCEPT ![p] = x.err]
        /\ response' = [response EXCEPT ![p] = x.response]
        /\ heard' = [heard EXCEPT ![p] = Hear(@, x.body)]
        /\ res' = [res EXCEPT ![p] = x.target]
        /\ IF x.err # Nil
           THEN Return(p, Wrap("unable to create event", x.err), NoValue)
           ELSE IF FALSE
           THEN Return(p, Printed("event could not be created", x.response), NoValue)
           ELSE Return(p, Nil, NoValue)
    /\ UNCHANGED <<first, made, conf, tid, mTid, op, arg, ctxDone, request, read, prop,
                   r, sent, issued, waits, zeroSoFar, calls, remote>>

\* AddEvent after doRequest.
AddEventDone(p) ==
    /\ pc[p] = "flight"
    /\ op[p] = "AddEvent"
    /\ \E x \in Exchanges(p, Results, NoResult) :
        /\ err' = [err EXCEPT ![p] = x.err]
        /\ response' = [response EXCEPT ![p] = x.response]
        /\ heard' = [heard EXCEPT ![p] = Hear(@, x.body)]
        /\ res' = [res EXCEPT ![p] = x.target]
        /\ IF x.err # Nil
           THEN Return(p, Wrap("unable to create event", x.err), NoValue)
           ELSE IF ~x.target.Success
           THEN Return(p, Printed("event could not be created", x.response), NoValue)
           ELSE Return(p, Nil, NoValue)
    /\ UNCHANGED <<first, made, conf, tid, mTid, op, arg, ctxDone, request, read, prop,
                   r, sent, issued, waits, zeroSoFar, calls, remote>>

----
\* ReadDevice.

\* deviceReadData{UID: uid}
ReadByUID(uid) ==
    Request(actionDeviceRoute, methodGetDevices, [uid |-> uid], pathDeviceRouter)

\* deviceReadData{UID: "", Params: &deviceReadParams{Name: name}}
ReadByName(name) ==
    Request(actionDeviceRoute, methodGetDevices, [params |-> [name |-> name]],
            pathDeviceRouter)

ReadDevice(p) ==
    \E uid \in UIDs :
        /\ Enter(p, "ReadDevice", [uid |-> uid])
        /\ Send(p, ReadByUID(uid))
        /\ UNCHANGED <<first, made, conf, tid, mTid, ret, issued, remote>>

\* What ReadDevice returns for a decoded response.
ReadDeviceResult(dev) ==
    IF dev.Count > 1
    THEN [err |-> New("error multiple devices returned"), val |-> NoValue]
    ELSE IF dev.Count = 0 \/ Len(dev.Devices) = 0
    THEN [err |-> Nil, val |-> NoValue]
    ELSE IF ~dev.Success
    THEN [err |-> New("error reading device"), val |-> NoValue]
    ELSE [err |-> Nil, val |-> dev.Devices[1]]

\* ReadDevice after doRequest.
ReadDeviceDone(p) ==
    /\ pc[p] = "flight"
    /\ op[p] = "ReadDevice"
    /\ \E x \in Exchanges(p, remote.reads, NoRead) :
        /\ err' = [err EXCEPT ![p] = x.err]
        /\ response' = [response EXCEPT ![p] = x.response]
        /\ heard' = [heard EXCEPT ![p] = Hear(@, x.body)]
        /\ read' = [read EXCEPT ![p] = x.target]
        /\ IF x.err # Nil
           THEN Return(p, Wrap("unable to read device", x.err), NoValue)
           ELSE Return(p, ReadDeviceResult(x.target).err, ReadDeviceResult(x.target).val)
    /\ UNCHANGED <<first, made, conf, tid, mTid, op, arg, ctxDone, prop, request, res,
                   r, sent, issued, waits, zeroSoFar, calls, remote>>

----
\* CreateDevice.

\* A response that reports no device, by its count and by its list.
ZeroMatches(d) == d.Count = 0 /\ Len(d.Devices) = 0

\* read.Result.Count == 0 || len(read.Result.Devices) == 0
NoDevices(d) == d.Count = 0 \/ Len(d.Devices) = 0

\* A check that takes one device for several.
SeveralDevicesFromOne(d) == d.Count >= 1 \/ Len(d.Devices) >= 1

\* read.Result.Count > 1 || len(read.Result.Devices) > 1
SeveralDevices(d) == d.Count > 1 \/ Len(d.Devices) > 1

CreateDevice(p) ==
    \E name \in Names :
        /\ Enter(p, "CreateDevice", [dev |-> [Name |-> name]])
        /\ Send(p, Request(actionDeviceRoute, methodAddDevice, [deviceName |-> name],
                           pathDeviceRouter))
        /\ UNCHANGED <<first, made, conf, tid, mTid, ret, issued, remote>>

\* A CreateDevice that does not look at the add response's success flag.
CreateDeviceAddedUnchecked(p) ==
    /\ pc[p] = "flight"
    /\ op[p] = "CreateDevice"
    /\ request[p].Method = methodAddDevice
    /\ \E x \in Exchanges(p, Results, NoResult) :
        /\ err' = [err EXCEPT ![p] = x.err]
        /\ response' = [response EXCEPT ![p] = x.response]
        /\ heard' = [heard EXCEPT ![p] = Hear(@, x.body)]
        /\ res' = [res EXCEPT ![p] = x.target]
        /\ IF x.err # Nil
           THEN /\ Return(p, Wrap("unable to create device", x.err), NoValue)
                /\ UNCHANGED request
           ELSE IF FALSE
           THEN /\ Return(p, New("add device returned unsuccessfull"), NoValue)
                /\ UNCHANGED request
           ELSE /\ Send(p, ReadByName(arg[p].dev.Name))
                /\ UNCHANGED ret
    /\ UNCHANGED <<first, made, conf, tid, mTid, op, arg, ctxDone, read, prop, r, sent,
                   issued, waits, zeroSoFar, calls, remote>>

\* CreateDevice after the doRequest of its add request.
CreateDeviceAdded(p) ==
    /\ pc[p] = "flight"
    /\ op[p] = "CreateDevice"
    /\ request[p].Method = methodAddDevice
    /\ \E x \in Exchanges(p, Results, NoResult) :
        /\ err' = [err EXCEPT ![p] = x.err]
        /\ response' = [response EXCEPT ![p] = x.response]
        /\ heard' = [heard EXCEPT ![p] = Hear(@, x.body)]
        /\ res' = [res EXCEPT ![p] = x.target]
        /\ IF x.err # Nil
           THEN /\ Return(p, Wrap("unable to create device", x.err), NoValue)
                /\ UNCHANGED request
           ELSE IF ~x.target.Success
           THEN /\ Return(p, New("add device returned unsuccessfull"), NoValue)
                /\ UNCHANGED request
           ELSE /\ Send(p, ReadByName(arg[p].dev.Name))
                /\ UNCHANGED ret
    /\ UNCHANGED <<first, made, conf, tid, mTid, op, arg, ctxDone, read, prop, r, sent,
                   issued, waits, zeroSoFar, calls, remote>>

\* A poll loop that takes a failed read for a read without devices.
CreateDevicePolledThroughErrors(p) ==
    /\ pc[p] = "flight"
    /\ op[p] = "CreateDevice"
    /\ request[p].Method = methodGetDevices
    /\ \E x \in Exchanges(p, remote.reads, NoRead) :
        /\ err' = [err EXCEPT ![p] = x.err]
        /\ response' = [response EXCEPT ![p] = x.response]
        /\ heard' = [heard EXCEPT ![p] = Hear(@, x.body)]
        /\ read' = [read EXCEPT ![p] = x.target]
        /\ zeroSoFar' = [zeroSoFar EXCEPT ![p] = @ /\ (r[p] = 0 \/ ZeroMatches(read[p]))]
        /\ IF FALSE
           THEN /\ Return(p, Wrap("unable to read device after creation", x.err), NoValue)
                /\ UNCHANGED <<r, waits>>
           ELSE /\ r' = [r EXCEPT ![p] = @ + 1]
                /\ IF ~res[p].Success
                   THEN /\ Return(p, New("read of added device returned unsuccessfull"), NoValue)
                        /\ UNCHANGED waits
                   ELSE IF NoDevices(x.target)
                   THEN IF r'[p] > PollLimit
                        THEN /\ Return(p, Named("no devices returned after creation of",
                                                arg[p].dev.Name), NoValue)
                             /\ UNCHANGED waits
                        ELSE /\ pc' = [pc EXCEPT ![p] = "select"]
                             /\ waits' = [waits EXCEPT ![p] = @ + 1]
                             /\ UNCHANGED ret
                   ELSE /\ UNCHANGED waits
                        /\ IF SeveralDevices(x.target)
                           THEN Return(p, Named("multiple devices returned after creation of",
                                                arg[p].dev.Name), NoValue)
                           ELSE Return(p, Nil, x.target.Devices[1])
    /\ UNCHANGED <<first, made, conf, tid, mTid, op, arg, ctxDone, prop, request, res,
                   sent, issued, calls, remote>>

\* A poll loop without the ceiling on r.
CreateDevicePolledOnAndOn(p) ==
    /\ pc[p] = "flight"
    /\ op[p] = "CreateDevice"
    /\ request[p].Method = methodGetDevices
    /\ \E x \in Exchanges(p, remote.reads, NoRead) :
        /\ err' = [err EXCEPT ![p] = x.err]
        /\ response' = [response EXCEPT ![p] = x.response]
        /\ heard' = [heard EXCEPT ![p] = Hear(@, x.body)]
        /\ read' = [read EXCEPT ![p] = x.target]
        /\ zeroSoFar' = [zeroSoFar EXCEPT ![p] = @ /\ (r[p] = 0 \/ ZeroMatches(read[p]))]
        /\ IF x.err # Nil
           THEN /\ Return(p, Wrap("unable to read device after creation", x.err), NoValue)
                /\ UNCHANGED <<r, waits>>
           ELSE /\ r' = [r EXCEPT ![p] = @ + 1]
                /\ IF ~res[p].Success
                   THEN /\ Return(p, New("read of added device returned unsuccessfull"), NoValue)
                        /\ UNCHANGED waits
                   ELSE IF NoDevices(x.target)
                   THEN /\ pc' = [pc EXCEPT ![p] = "select"]
                        /\ waits' = [waits EXCEPT ![p] = @ + 1]
                        /\ UNCHANGED ret
                   ELSE /\ UNCHANGED waits
                        /\ IF SeveralDevices(x.target)
                           THEN Return(p, Named("multiple devices returned after creation of",
                                                arg[p].dev.Name), NoValue)
                           ELSE Return(p, Nil, x.target.Devices[1])
    /\ UNCHANGED <<first, made, conf, tid, mTid, op, arg, ctxDone, prop, request, res,
                   sent, issued, calls, remote>>

\* One turn of the poll loop after its doRequest, down to the select or to
\* the return.
CreateDevicePolled(p) ==
    /\ pc[p] = "flight"
    /\ op[p] = "CreateDevice"
    /\ request[p].Method = methodGetDevices
    /\ \E x \in Exchanges(p, remote.reads, NoRead) :
        /\ err' = [err EXCEPT ![p] = x.err]
        /\ response' = [response EXCEPT ![p] = x.response]
        /\ heard' = [heard EXCEPT ![p] = Hear(@, x.body)]
        /\ read' = [read EXCEPT ![p] = x.target]
        /\ zeroSoFar' = [zeroSoFar EXCEPT ![p] = @ /\ (r[p] = 0 \/ ZeroMatches(read[p]))]
        /\ IF x.err # Nil
           THEN /\ Return(p, Wrap("unable to read device after creation", x.err), NoValue)
                /\ UNCHANGED <<r, waits>>
           ELSE /\ r' = [r EXCEPT ![p] = @ + 1]
                /\ IF ~res[p].Success
                   THEN /\ Return(p, New("read of added device returned unsuccessfull"), NoValue)
                        /\ UNCHANGED waits
                   ELSE IF NoDevices(x.target)
                   THEN IF r'[p] > PollLimit
                        THEN /\ Return(p, Named("no devices returned after creation of",
                                                arg[p].dev.Name), NoValue)
                             /\ UNCHANGED waits
                        ELSE /\ pc' = [pc EXCEPT ![p] = "select"]
                             /\ waits' = [waits EXCEPT ![p] = @ + 1]
                             /\ UNCHANGED ret
                   ELSE /\ UNCHANGED waits
                        /\ IF SeveralDevices(x.target)
                           THEN Return(p, Named("multiple devices returned after creation of",
                                                arg[p].dev.Name), NoValue)
                           ELSE Return(p, Nil, x.target.Devices[1])
    /\ UNCHANGED <<first, made, conf, tid, mTid, op, arg, ctxDone, prop, request, res,
                   sent, issued, calls, remote>>

\* The select of the poll loop: <-ctx.Done()
CreateDeviceCancelled(p) ==
    /\ pc[p] = "select"
    /\ ctxDone[p]
    /\ Return(p, Canceled, NoValue)
    /\ UNCHANGED <<first, heard, made, conf, response, tid, mTid, op, arg, ctxDone,
                   request, err, res, read, prop, r, sent, issued, waits, zeroSoFar,
                   calls, remote>>

\* A wait between polls that does not listen to the context.
CreateDeviceWaitedAnyway(p) ==
    /\ pc[p] = "select"
    /\ pc' = [pc EXCEPT ![p] = "nextTid"]
    /\ UNCHANGED <<first, heard, made, conf, response, tid, mTid, op, arg, ctxDone,
                   request, err, res, read, prop, r, ret, sent, issued, waits,
                   zeroSoFar, calls, remote>>

\* The select of the poll loop: <-time.After(2 * time.Second), and on to the
\* next doRequest.
CreateDeviceWaited(p) ==
    /\ pc[p] = "select"
    /\ ~ctxDone[p]
    /\ pc' = [pc EXCEPT ![p] = "nextTid"]
    /\ UNCHANGED <<first, heard, made, conf, response, tid, mTid, op, arg, ctxDone,
                   request, err, res, read, prop, r, ret, sent, issued, waits,
                   zeroSoFar, calls, remote>>

----
\* DeleteDevice.

\* A remove request whose hash is the one goroutine g1 read last.
RemoveDeviceSharedHash(uid, hash) ==
    Request(actionDeviceRoute, methodRemoveDevices,
            [action |-> "delete", uids |-> <<uid>>, hashcheck |-> read["g1"].Hash,
             deleteEvents |-> TRUE], pathDeviceRouter)

\* deviceRemoveData{Action: "delete", UIDs: []string{uid}, Hashcheck: hash,
\* DeleteEvents: true}
RemoveDevice(uid, hash) ==
    Request(actionDeviceRoute, methodRemoveDevices,
            [action |-> "delete", uids |-> <<uid>>, hashcheck |-> hash,
             deleteEvents |-> TRUE], pathDeviceRouter)

DeleteDevice(p) ==
    \E uid \in UIDs :
        /\ Enter(p, "DeleteDevice", [uid |-> uid])
        /\ Send(p, ReadByUID(uid))
        /\ UNCHANGED <<first, made, conf, tid, mTid, ret, issued, remote>>

\* A DeleteDevice that goes on to the remove whatever became of the read.
DeleteDeviceReadUnchecked(p) ==
    /\ pc[p] = "flight"
    /\ op[p] = "DeleteDevice"
    /\ request[p].Method = methodGetDevices
    /\ \E x \in Exchanges(p, remote.reads, NoRead) :
        /\ err' = [err EXCEPT ![p] = x.err]
        /\ response' = [response EXCEPT ![p] = x.response]
        /\ heard' = [heard EXCEPT ![p] = Hear(@, x.body)]
        /\ read' = [read EXCEPT ![p] = x.target]
        /\ IF FALSE
           THEN /\ Return(p, Wrap("unable to read hash for deleting device", x.err), NoValue)
                /\ UNCHANGED request
           ELSE /\ Send(p, RemoveDevice(arg[p].uid, x.target.Hash))
                /\ UNCHANGED ret
    /\ UNCHANGED <<first, made, conf, tid, mTid, op, arg, ctxDone, prop, res, r, sent,
                   issued, waits, zeroSoFar, calls, remote>>

\* A DeleteDevice that gives up when its read matched no device.
DeleteDeviceReadCounted(p) ==
    /\ pc[p] = "flight"
    /\ op[p] = "DeleteDevice"
    /\ request[p].Method = methodGetDevices
    /\ \E x \in Exchanges(p, remote.reads, NoRead) :
        /\ err' = [err EXCEPT ![p] = x.err]
        /\ response' = [response EXCEPT ![p] = x.response]
        /\ heard' = [heard EXCEPT ![p] = Hear(@, x.body)]
        /\ read' = [read EXCEPT ![p] = x.target]
        /\ IF x.err # Nil
           THEN /\ Return(p, Wrap("unable to read hash for deleting device", x.err), NoValue)
                /\ UNCHANGED request
           ELSE IF ZeroMatches(x.target)
           THEN /\ Return(p, New("no device to delete"), NoValue)
                /\ UNCHANGED request
           ELSE /\ Send(p, RemoveDevice(arg[p].uid, x.target.Hash))
                /\ UNCHANGED ret
    /\ UNCHANGED <<first, made, conf, tid, mTid, op, arg, ctxDone, prop, res, r, sent,
                   issued, waits, zeroSoFar, calls, remote>>

\* DeleteDevice after the doRequest of its read.
DeleteDeviceRead(p) ==
    /\ pc[p] = "flight"
    /\ op[p] = "DeleteDevice"
    /\ request[p].Method = methodGetDevices
    /\ \E x \in Exchanges(p, remote.reads, NoRead) :
        /\ err' = [err EXCEPT ![p] = x.err]
        /\ response' = [response EXCEPT ![p] = x.response]
        /\ heard' = [heard EXCEPT ![p] = Hear(@, x.body)]
        /\ read' = [read EXCEPT ![p] = x.target]
        /\ IF x.err # Nil
           THEN /\ Return(p, Wrap("unable to read hash for deleting device", x.err), NoValue)
                /\ UNCHANGED request
           ELSE /\ Send(p, RemoveDevice(arg[p].uid, x.target.Hash))
                /\ UNCHANGED ret
    /\ UNCHANGED <<first, made, conf, tid, mTid, op, arg, ctxDone, prop, res, r, sent,
                   issued, waits, zeroSoFar, calls, remote>>

\* What an operation returns after a request that only succeeds or fails.
Outcome(x, failed, unsuccessful) ==
    IF x.err # Nil THEN Wrap(failed, x.err)
    ELSE IF ~x.target.Success THEN New(unsuccessful)
    ELSE Nil

\* DeleteDevice after the doRequest of its remove request.
DeleteDeviceDone(p) ==
    /\ pc[p] = "flight"
    /\ op[p] = "DeleteDevice"
    /\ request[p].Method = methodRemoveDevices
    /\ \E x \in Exchanges(p, Results, NoResult) :
        /\ err' = [err EXCEPT ![p] = x.err]
        /\ response' = [response EXCEPT ![p] = x.response]
        /\ heard' = [heard EXCEPT ![p] = Hear(@, x.body)]
        /\ res' = [res EXCEPT ![p] = x.target]
        /\ Return(p, Outcome(x, "unable to delete device",
                              "remove device returned unsuccessful"), NoValue)
    /\ UNCHANGED <<first, made, conf, tid, mTid, op, arg, ctxDone, request, read, prop,
                   r, sent, issued, waits, zeroSoFar, calls, remote>>

----
\* UpdateDeviceProductionState.

UpdateDeviceProductionState(p) ==
    \E uid \in UIDs, state \in States :
        /\ Enter(p, "UpdateDeviceProductionState", [uid |-> uid, state |-> state])
        /\ Send(p, Request(actionDeviceRoute, methodSetInfo,
                           [uid |-> uid, productionState |-> state], pathDeviceRouter))
        /\ UNCHANGED <<first, made, conf, tid, mTid, ret, issued, remote>>

UpdateDeviceProductionStateDone(p) ==
    /\ pc[p] = "flight"
    /\ op[p] = "UpdateDeviceProductionState"
    /\ \E x \in Exchanges(p, Results, NoResult) :
        /\ err' = [err EXCEPT ![p] = x.err]
        /\ response' = [response EXCEPT ![p] = x.response]
        /\ heard' = [heard EXCEPT ![p] = Hear(@, x.body)]
        /\ res' = [res EXCEPT ![p] = x.target]
        /\ Return(p, Outcome(x, "unable to update device",
                              "update device returned unsuccessful"), NoValue)
    /\ UNCHANGED <<first, made, conf, tid, mTid, op, arg, ctxDone, request, read, prop,
                   r, sent, issued, waits, zeroSoFar, calls, remote>>

----
\* The custom property operations.

\* A property read sent to the device router.
ReadPropertyFromDevices(uid, id) ==
    Request(actionPropertiesRouter, methodGetCustomProperties,
            [uid |-> uid, params |-> [id |-> id]], pathDeviceRouter)

\* customPropertiesReadData{UID: uid, Params: &customPropReadParams{Id: id}}
ReadProperty(uid, id) ==
    Request(actionPropertiesRouter, methodGetCustomProperties,
            [uid |-> uid, params |-> [id |-> id]], pathPropertiesRouter)

ReadCustomProperty(p) ==
    \E uid \in UIDs, id \in PropIds :
        /\ Enter(p, "ReadCustomProperty", [uid |-> uid, id |-> id])
        /\ Send(p, ReadProperty(uid, id))
        /\ UNCHANGED <<first, made, conf, tid, mTid, ret, issued, remote>>

\* A ReadCustomProperty that does not look at the success flag.
ReadCustomPropertyResultUnchecked(readResponse) ==
    IF readResponse.Count > 1
    THEN [err |-> New("error reading custom properties from device or more devices returned"),
          val |-> NoValue]
    ELSE IF readResponse.Count = 0 \/ Len(readResponse.Data) = 0
    THEN [err |-> Nil, val |-> NoValue]
    ELSE [err |-> Nil, val |-> readResponse.Data[1].Id]

\* What ReadCustomProperty returns for a decoded response.
ReadCustomPropertyResult(readResponse) ==
    IF ~readResponse.Success \/ readResponse.Count > 1
    THEN [err |-> New("error reading custom properties from device or more devices returned"),
          val |-> NoValue]
    ELSE IF readResponse.Count = 0 \/ Len(readResponse.Data) = 0
    THEN [err |-> Nil, val |-> NoValue]
    ELSE [err |-> Nil, val |-> readResponse.Data[1].Id]

ReadCustomPropertyDone(p) ==
    /\ pc[p] = "flight"
    /\ op[p] = "ReadCustomProperty"
    /\ \E x \in Exchanges(p, remote.props, NoProp) :
        /\ err' = [err EXCEPT ![p] = x.err]
        /\ response' = [response EXCEPT ![p] = x.response]
        /\ heard' = [heard EXCEPT ![p] = Hear(@, x.body)]
        /\ prop' = [prop EXCEPT ![p] = x.target]
        /\ IF x.err # Nil
           THEN Return(p, Wrap("unable to read custom properties from device", x.err), NoValue)
           ELSE Return(p, ReadCustomPropertyResult(x.target).err,
                       ReadCustomPropertyResult(x.target).val)
    /\ UNCHANGED <<first, made, conf, tid, mTid, op, arg, ctxDone, request, res, read,
                   r, sent, issued, waits, zeroSoFar, calls, remote>>

DeleteCustomProperty(p) ==
    \E uid \in UIDs, id \in PropIds :
        /\ Enter(p, "DeleteCustomProperty", [uid |-> uid, id |-> id])
        /\ Send(p, ReadProperty(uid, id))
        /\ UNCHANGED <<first, made, conf, tid, mTid, ret, issued, remote>>

\* A DeleteCustomProperty that goes on to the remove whatever became of the
\* read.
DeleteCustomPropertyReadUnchecked(p) ==
    /\ pc[p] = "flight"
    /\ op[p] = "DeleteCustomProperty"
    /\ request[p].Method = methodGetCustomProperties
    /\ \E x \in Exchanges(p, remote.props, NoProp) :
        /\ err' = [err EXCEPT ![p] = x.err]
        /\ response' = [response EXCEPT ![p] = x.response]
        /\ heard' = [heard EXCEPT ![p] = Hear(@, x.body)]
        /\ prop' = [prop EXCEPT ![p] = x.target]
        /\ IF FALSE
           THEN /\ Return(p, Wrap("unable to read hash for deleting custom property", x.err),
                          NoValue)
                /\ UNCHANGED request
           ELSE /\ Send(p, Request(actionPropertiesRouter, methodDeleteCustomProperty,
                                    [uid |-> arg[p].uid, id |-> arg[p].id],
                                    pathPropertiesRouter))
                /\ UNCHANGED ret
    /\ UNCHANGED <<first, made, conf, tid, mTid, op, arg, ctxDone, res, read, r, sent,
                   issued, waits, zeroSoFar, calls, remote>>

\* A DeleteCustomProperty that gives up unless its read reports success and
\* one property.
DeleteCustomPropertyReadChecked(p) ==
    /\ pc[p] = "flight"
    /\ op[p] = "DeleteCustomProperty"
    /\ request[p].Method = methodGetCustomProperties
    /\ \E x \in Exchanges(p, remote.props, NoProp) :
        /\ err' = [err EXCEPT ![p] = x.err]
        /\ response' = [response EXCEPT ![p] = x.response]
        /\ heard' = [heard EXCEPT ![p] = Hear(@, x.body)]
        /\ prop' = [prop EXCEPT ![p] = x.target]
        /\ IF x.err # Nil
           THEN /\ Return(p, Wrap("unable to read hash for deleting custom property", x.err),
                          NoValue)
                /\ UNCHANGED request
           ELSE IF ~x.target.Success \/ x.target.Count # 1
           THEN /\ Return(p, New("no custom property to delete"), NoValue)
                /\ UNCHANGED request
           ELSE /\ Send(p, Request(actionPropertiesRouter, methodDeleteCustomProperty,
                                    [uid |-> arg[p].uid, id |-> arg[p].id],
                                    pathPropertiesRouter))
                /\ UNCHANGED ret
    /\ UNCHANGED <<first, made, conf, tid, mTid, op, arg, ctxDone, res, read, r, sent,
                   issued, waits, zeroSoFar, calls, remote>>

\* DeleteCustomProperty after the doRequest of its read.
DeleteCustomPropertyRead(p) ==
    /\ pc[p] = "flight"
    /\ op[p] = "DeleteCustomProperty"
    /\ request[p].Method = methodGetCustomProperties
    /\ \E x \in Exchanges(p, remote.props, NoProp) :
        /\ err' = [err EXCEPT ![p] = x.err]
        /\ response' = [response EXCEPT ![p] = x.response]
        /\ heard' = [heard EXCEPT ![p] = Hear(@, x.body)]
        /\ prop' = [prop EXCEPT ![p] = x.target]
        /\ IF x.err # Nil
           THEN /\ Return(p, Wrap("unable to read hash for deleting custom property", x.err),
                          NoValue)
                /\ UNCHANGED request
           ELSE /\ Send(p, Request(actionPropertiesRouter, methodDeleteCustomProperty,
                                    [uid |-> arg[p].uid, id |-> arg[p].id],
                                    pathPropertiesRouter))
                /\ UNCHANGED ret
    /\ UNCHANGED <<first, made, conf, tid, mTid, op, arg, ctxDone, res, read, r, sent,
                   issued, waits, zeroSoFar, calls, remote>>

\* DeleteCustomProperty after the doRequest of its remove request.
DeleteCustomPropertyDone(p) ==
    /\ pc[p] = "flight"
    /\ op[p] = "DeleteCustomProperty"
    /\ request[p].Method = methodDeleteCustomProperty
    /\ \E x \in Exchanges(p, Results, NoResult) :
        /\ err' = [err EXCEPT ![p] = x.err]
        /\ response' = [response EXCEPT ![p] = x.response]
        /\ heard' = [heard EXCEPT ![p] = Hear(@, x.body)]
        /\ res' = [res EXCEPT ![p] = x.target]
        /\ Return(p, Outcome(x, "unable to delete custom property",
                              "remove custom property returned unsuccessful"), NoValue)
    /\ UNCHANGED <<first, made, conf, tid, mTid, op, arg, ctxDone, request, read, prop,
                   r, sent, issued, waits, zeroSoFar, calls, remote>>

UpdateCustomProperty(p) ==
    \E uid \in UIDs, id \in PropIds, value \in PropValues :
        /\ Enter(p, "UpdateCustomProperty", [uid |-> uid, id |-> id, value |-> value])
        /\ Send(p, Request(actionPropertiesRouter, methodUpdateCustomProperty,
                           [uid |-> uid, id |-> id, value |-> value],
                           pathPropertiesRouter))
        /\ UNCHANGED <<first, made, conf, tid, mTid, ret, issued, remote>>

\* An UpdateCustomProperty that sends its request again after an unsuccessful
\* response.
UpdateCustomPropertyDoneAgain(p) ==
    /\ pc[p] = "flight"
    /\ op[p] = "UpdateCustomProperty"
    /\ \E x \in Exchanges(p, Results, NoResult) :
        /\ err' = [err EXCEPT ![p] = x.err]
        /\ response' = [response EXCEPT ![p] = x.response]
        /\ heard' = [heard EXCEPT ![p] = Hear(@, x.body)]
        /\ res' = [res EXCEPT ![p] = x.target]
        /\ IF x.err = Nil /\ ~x.target.Success
           THEN /\ pc' = [pc EXCEPT ![p] = "nextTid"]
                /\ UNCHANGED ret
           ELSE Return(p, Outcome(x, "unable to update custom property",
                                  "update custom property returned unsuccessful"), NoValue)
    /\ UNCHANGED <<first, made, conf, tid, mTid, op, arg, ctxDone, request, read, prop,
                   r, sent, issued, waits, zeroSoFar, calls, remote>>

UpdateCustomPropertyDone(p) ==
    /\ pc[p] = "flight"
    /\ op[p] = "UpdateCustomProperty"
    /\ \E x \in Exchanges(p, Results, NoResult) :
        /\ err' = [err EXCEPT ![p] = x.err]
        /\ response' = [response EXCEPT ![p] = x.response]
        /\ heard' = [heard EXCEPT ![p] = Hear(@, x.body)]
        /\ res' = [res EXCEPT ![p] = x.target]
        /\ Return(p, Outcome(x, "unable to update custom property",
                              "update custom property returned unsuccessful"), NoValue)
    /\ UNCHANGED <<first, made, conf, tid, mTid, op, arg, ctxDone, request, read, prop,
                   r, sent, issued, waits, zeroSoFar, calls, remote>>

----
\* The older client of the repository (zenoss.go), which has AddEvent only.

\* Its NewClient keeps base URI, credentials and monitor as they are given.
NewLegacyClient(baseURI, username, password, monitor) ==
    [url |-> baseURI, username |-> username, password |-> password, monitor |-> monitor]

\* A JSON value as Decode stores it in an interface{}: a bool or a string.
Bool(b) == [type |-> "bool", bool |-> b, text |-> ""]
Text(t) == [type |-> "string", bool |-> FALSE, text |-> t]

\* The result objects of the model, as map[string]interface{}: success true
\* and false, no entry at all, no success entry, and a success that is a
\* string.
LegacyResults ==
    { ("success" :> Bool(TRUE)),
      ("success" :> Bool(FALSE)),
      <<>>,
      ("msg" :> Text("queued")),
      ("success" :> Text("true")) }

\* One goroutine uses the older client, built with any credentials.
InitLegacy ==
    /\ \E username \in Usernames, password \in Passwords :
          /\ made = [baseURI |-> BaseURI, username |-> username,
                     password |-> password, monitor |-> "mon"]
          /\ conf = NewLegacyClient(BaseURI, username, password, "mon")
    /\ Started
    /\ first = NoFirst
    /\ calls = [p \in Procs |-> IF p = "g1" THEN MaxCalls ELSE 0]
    /\ remote = [results |-> LegacyResults, envelopes |-> {"echo"}, requests |-> MaxCalls]

\* AddEvent of the older client up to its request: no length is checked.
LegacyAddEvent(p) ==
    \E a \in EventInputs :
        /\ Enter(p, "AddEvent", a)
        /\ Send(p, Request("EventsRouter", "add_event", EventData(a), "evconsole_router"))
        /\ UNCHANGED <<first, made, conf, tid, mTid, ret, issued, remote>>

\* The HTTP request of the older client: the base URI followed by
\* /evconsole_router, and Basic Auth when a username or a password is set.
LegacyHttpRequest(req) ==
    [url |-> [host |-> conf.url.host, path |-> conf.url.path \o <<req.path>>],
     header |-> IF conf.username # "" \/ conf.password # ""
                THEN ("Authorization" :> SetBasicAuth(conf.username, conf.password))
                     @@ ("Content-Type" :> "application/json")
                ELSE ("Content-Type" :> "application/json"),
     body |-> [action |-> req.Action, method |-> req.Method,
               data |-> req.Data, tid |-> req.Tid]]

\* Tid: api.nextTid(), under the mutex; then on to api.client.Do(req).
LegacySend(p) ==
    /\ pc[p] = "nextTid"
    /\ MutexFree
    /\ tid < remote.requests
    /\ tid' = tid + 1
    /\ request' = [request EXCEPT ![p].Tid = tid + 1]
    /\ issued' = Append(issued, tid + 1)
    /\ sent' = [sent EXCEPT ![p] = Append(@, LegacyHttpRequest(request'[p]))]
    /\ pc' = [pc EXCEPT ![p] = "flight"]
    /\ UNCHANGED <<first, heard, made, conf, response, mTid, op, arg, ctxDone, err, res,
                   read, prop, r, ret, waits, zeroSoFar, calls, remote>>

\* result.Result[key].(bool): the entry's bool, or a panic when the map has
\* no such entry (a nil interface) or the entry is no bool.
AssertBool(m, key) ==
    IF key \in DOMAIN m /\ m[key].type = "bool"
    THEN [panic |-> FALSE, bool |-> m[key].bool]
    ELSE [panic |-> TRUE, bool |-> FALSE]

\* AddEvent of the older client after client.Do: the error of Do as it is,
\* the error of Decode wrapped, or the decoded response, whose success entry
\* is asserted to be a bool.
LegacyAddEventDone(p) ==
    /\ pc[p] = "flight"
    /\ \/ /\ err' = [err EXCEPT ![p] = NetError]
          /\ Return(p, NetError, NoValue)
          /\ UNCHANGED <<res, response>>
       \/ /\ err' = [err EXCEPT ![p] = JsonError]
          /\ Return(p, Wrap("unable to parse response from Zenoss", JsonError), NoValue)
          /\ UNCHANGED <<res, response>>
       \/ \E m \in remote.results, e \in remote.envelopes :
            /\ res' = [res EXCEPT ![p] = m]
            /\ response' = [response EXCEPT ![p] = Envelope(e, request[p])]
            /\ IF AssertBool(m, "success").panic
               THEN /\ pc' = [pc EXCEPT ![p] = "panic"]
                    /\ UNCHANGED ret
               ELSE IF ~AssertBool(m, "success").bool
               THEN Return(p, Printed("event could not be created", response'[p]), NoValue)
               ELSE Return(p, Nil, NoValue)
            /\ UNCHANGED err
    /\ UNCHANGED <<first, heard, made, conf, tid, mTid, op, arg, ctxDone, request, read,
                   prop, r, sent, issued, waits, zeroSoFar, calls, remote>>

----
\* The next-state relation: a goroutine starts a call or takes the next step
\* of its call, or a caller cancels a context.
Next ==
    \E p \in Procs :
        \/ AddEvent(p)
        \/ AddEventDone(p)
        \/ ReadDevice(p)
        \/ ReadDeviceDone(p)
        \/ CreateDevice(p)
        \/ CreateDeviceAdded(p)
        \/ CreateDevicePolled(p)
        \/ CreateDeviceCancelled(p)
        \/ CreateDeviceWaited(p)
        \/ DeleteDevice(p)
        \/ DeleteDeviceRead(p)
        \/ DeleteDeviceDone(p)
        \/ UpdateDeviceProductionState(p)
        \/ UpdateDeviceProductionStateDone(p)
        \/ ReadCustomProperty(p)
        \/ ReadCustomPropertyDone(p)
        \/ DeleteCustomProperty(p)
        \/ DeleteCustomPropertyRead(p)
        \/ DeleteCustomPropertyDone(p)
        \/ UpdateCustomProperty(p)
        \/ UpdateCustomPropertyDone(p)
        \/ nextTid(p)
        \/ doRequest(p)
        \/ Cancel(p)

\* One goroutine, call after call.
Spec == Init /\ [][Next]_vars

\* Several goroutines on one client.
ConcSpec == InitConc /\ [][Next]_vars

\* One goroutine on a client built in any way.
BuiltSpec == InitBuilt /\ [][Next]_vars

\* The steps of the older client.
LegacyNext ==
    \E p \in Procs :
        \/ LegacyAddEvent(p)
        \/ LegacySend(p)
        \/ LegacyAddEventDone(p)

\* One goroutine on the older client.
LegacySpec == InitLegacy /\ [][LegacyNext]_vars

\* The second run: the call of the first run has returned and is kept, and a
\* client made by NewClient from the same arguments is there for one call; the
\* remote side now puts any envelope on its responses.
Renew ==
    /\ first.compare
    /\ ~first.taken
    /\ pc["g1"] = "idle"
    /\ calls["g1"] = 0
    /\ first' = [compare |-> TRUE, taken |-> TRUE, op |-> op["g1"], arg |-> arg["g1"],
                 heard |-> heard["g1"], ret |-> ret["g1"], sent |-> sent["g1"]]
    /\ conf' = NewClient(made.baseURI, made.username, made.password, made.monitor)
    /\ tid' = 0
    /\ mTid' = NoProc
    /\ issued' = <<>>
    /\ calls' = [calls EXCEPT !["g1"] = 1]
    /\ remote' = [remote EXCEPT !.envelopes = {"echo", "other"}]
    /\ UNCHANGED <<made, pc, op, arg, ctxDone, request, err, res, read, prop, response,
                   r, ret, sent, waits, zeroSoFar, heard>>

\* The call of the second run is the call of the first, with its arguments.
SameCall ==
    first.taken /\ pc["g1"] = "idle" => op'["g1"] = first.op /\ arg'["g1"] = first.arg

\* Two runs of one call, one after the other.
PairNext ==
    \/ Next /\ SameCall
    \/ Renew

PairSpec == InitPair /\ [][PairNext]_vars

\* Two runs of one call, with every kind of property read response.
PairPropsSpec == InitPairProps /\ [][PairNext]_vars

\* The steps of a call that is under way: the goroutine runs on, every HTTP
\* exchange comes to an end, and the timer of the poll's select fires.
Continue(p) ==
    \/ nextTid(p)
    \/ doRequest(p)
    \/ AddEventDone(p)
    \/ ReadDeviceDone(p)
    \/ CreateDeviceAdded(p)
    \/ CreateDevicePolled(p)
    \/ CreateDeviceCancelled(p)
    \/ CreateDeviceWaited(p)
    \/ DeleteDeviceRead(p)
    \/ DeleteDeviceDone(p)
    \/ UpdateDeviceProductionStateDone(p)
    \/ ReadCustomPropertyDone(p)
    \/ DeleteCustomPropertyRead(p)
    \/ DeleteCustomPropertyDone(p)
    \/ UpdateCustomPropertyDone(p)

\* One goroutine whose calls are not left standing: whether the caller starts
\* a call or cancels one is up to the caller.
LiveSpec == InitOne /\ [][Next]_vars /\ \A p \in Procs : WF_vars(Continue(p))

----
\* Transaction ids.

\* The transaction id of the i-th request of p's current call.
TidOf(p, i) == sent[p][i].body.tid

\* The methods of the requests of p's current call, in order.
Methods(p) == [i \in DOMAIN sent[p] |-> sent[p][i].body.method]

\* How many requests of p's current call are read-by-name or read-by-uid
\* device reads.
Reads(p) == Cardinality({ i \in DOMAIN sent[p] : Methods(p)[i] = methodGetDevices })

\* C1: whatever the interleaving of the goroutines, the ids attached to the
\* N requests issued so far are exactly 1..N, and no two requests carry the
\* same id.
C1_TidsAreOneToN ==
    /\ { issued[i] : i \in DOMAIN issued } = 1..Len(issued)
    /\ \A p, q \in Procs : \A i \in DOMAIN sent[p], j \in DOMAIN sent[q] :
            TidOf(p, i) = TidOf(q, j) => p = q /\ i = j
    /\ \A p \in Procs : \A i \in DOMAIN sent[p] :
            \E k \in DOMAIN issued : issued[k] = TidOf(p, i)

\* Two goroutines' requests interleave: one obtained an id between two ids
\* of the other.
C1_Witness ==
    \E p, q \in Procs :
        /\ p # q
        /\ Len(sent[p]) >= 2
        /\ Len(sent[q]) >= 1
        /\ TidOf(p, 1) < TidOf(q, 1)
        /\ TidOf(q, 1) < TidOf(p, 2)
        /\ Len(issued) = MaxTid

\* C2: used by one goroutine, a fresh client attaches id k to the k-th
\* request it issues, whatever the operations and however their exchanges
\* ended: the requests of the current call carry the last ids issued, in
\* order, and those of the first call carry 1, 2, ...
C2_KthRequestCarriesK ==
    /\ \A k \in DOMAIN issued : issued[k] = k
    /\ \A p \in Procs : \A i \in DOMAIN sent[p] :
            /\ TidOf(p, i) = Len(issued) - Len(sent[p]) + i
            /\ calls[p] = MaxSeqCalls - 1 => TidOf(p, i) = i

\* A DeleteDevice after a CreateDevice that polled to its end: read = 8,
\* remove = 9, the CreateDevice having failed.
C2_Witness ==
    /\ op["g1"] = "DeleteDevice"
    /\ Len(sent["g1"]) = 2
    /\ Len(issued) = PollLimit + 4
    /\ pc["g1"] = "idle"
    /\ err["g1"] # Nil

----
\* CreateDevice.

\* A response that reports exactly one device.
OneMatch(d) == d.Count = 1 /\ Len(d.Devices) = 1

\* A response that reports more than one device, by its count or by its
\* list.
ManyMatches(d) == d.Count > 1 \/ Len(d.Devices) > 1

\* p's CreateDevice has decoded k poll reads, the first k-1 of them without
\* a match.
Polled(p, k) ==
    /\ op[p] = "CreateDevice"
    /\ err[p] = Nil
    /\ res[p].Success
    /\ r[p] = k
    /\ zeroSoFar[p]

\* C3: when the add succeeded, k-1 reads by name report no match and the
\* k-th (k <= 6) reports exactly one, CreateDevice has issued the add and
\* exactly k reads with increasing ids, issues nothing more, and returns
\* the device of the k-th response and no error.
C3_ReturnsFirstMatch ==
    \A p \in Procs : \A k \in 1..(PollLimit + 1) :
        Polled(p, k) /\ OneMatch(read[p]) =>
            /\ pc[p] = "idle"
            /\ ret[p] = [err |-> Nil, val |-> read[p].Devices[1]]
            /\ Len(sent[p]) = k + 1
            /\ Methods(p)[1] = methodAddDevice
            /\ \A i \in 2..(k + 1) :
                   /\ Methods(p)[i] = methodGetDevices
                   /\ sent[p][i].body.data = <<[params |-> [name |-> arg[p].dev.Name]]>>
                   /\ TidOf(p, i - 1) < TidOf(p, i)

\* The device turned up at the third read.
C3_Witness ==
    \E p \in Procs :
        /\ Polled(p, 3)
        /\ OneMatch(read[p])
        /\ pc[p] = "idle"
        /\ ret[p].val = "d1"

\* C4: CreateDevice never issues more than 6 poll reads; when all six report
\* nothing it has returned, right after the sixth, an error that names the
\* device, having waited exactly five times.
C4_SixPollsThenTimeout ==
    \A p \in Procs :
        /\ op[p] = "CreateDevice" => Reads(p) <= 6
        /\ Polled(p, 6) /\ ZeroMatches(read[p]) =>
              /\ pc[p] = "idle"
              /\ ret[p].err # Nil
              /\ ret[p].err.msg = "no devices returned after creation of"
              /\ ret[p].err.of = arg[p].dev.Name
              /\ ret[p].val = NoValue
              /\ Reads(p) = 6
              /\ Len(sent[p]) = 7
              /\ waits[p] = 5

\* Six reads, none with a device.
C4_Witness ==
    \E p \in Procs :
        /\ Polled(p, 6)
        /\ ZeroMatches(read[p])
        /\ pc[p] = "idle"

\* C5: once the context is cancelled while CreateDevice waits between two
\* polls, its next step is to return the context's cancellation error, and
\* it issues no further request.
C5_CancelEndsTheWait ==
    [][\A p \in Procs :
          pc[p] = "select" /\ ctxDone[p] =>
            /\ sent'[p] = sent[p]
            /\ issued' = issued
            /\ \/ pc'[p] = "select"
               \/ /\ pc'[p] = "idle"
                  /\ ret'[p] = [err |-> Canceled, val |-> NoValue]]_vars

\* CreateDevice returned the cancellation error out of a wait.
C5_Witness ==
    \E p \in Procs :
        /\ op[p] = "CreateDevice"
        /\ pc[p] = "idle"
        /\ ctxDone[p]
        /\ ret[p] = [err |-> Canceled, val |-> NoValue]
        /\ waits[p] = 2
        /\ Reads(p) = 2

\* p's CreateDevice decoded an add response whose success flag is false.
AddRefused(p) ==
    /\ op[p] = "CreateDevice"
    /\ pc[p] = "idle"
    /\ err[p] = Nil
    /\ ~res[p].Success

\* C6: when the add response says success=false, CreateDevice returns an
\* error and has issued no read by name.
C6_RefusedAddIsAnError ==
    \A p \in Procs :
        /\ AddRefused(p) =>
              /\ ret[p].err # Nil
              /\ ret[p].val = NoValue
              /\ Reads(p) = 0
              /\ Len(sent[p]) = 1
        /\ op[p] = "CreateDevice" /\ Reads(p) > 0 => res[p].Success

C6_Witness ==
    \E p \in Procs :
        /\ AddRefused(p)
        /\ Len(sent[p]) = 1
        /\ ret[p].err = New("add device returned unsuccessfull")

\* C7: when a poll read reports more than one device, by totalCount or by
\* the device list, CreateDevice has returned an error and no device, and
\* polls no more.
C7_SeveralDevicesIsAnError ==
    \A p \in Procs : \A k \in 1..(PollLimit + 1) :
        /\ op[p] = "CreateDevice"
        /\ err[p] = Nil
        /\ res[p].Success
        /\ r[p] = k
        /\ ManyMatches(read[p])
        => /\ pc[p] = "idle"
           /\ ret[p].err # Nil
           /\ ret[p].val = NoValue

C8_WitnessAdd ==
    \E p \in Procs :
        /\ op[p] = "CreateDevice"
        /\ err[p] # Nil
        /\ ~res[p].Success
        /\ Len(sent[p]) = 1

----
\* DeleteDevice.

\* The places of the remove requests among the requests of p's call.
Removes(p) == { i \in DOMAIN sent[p] : Methods(p)[i] = methodRemoveDevices }

\* C9: the remove request of a DeleteDevice carries, unmodified, the hash of
\* the read response of that same call and names exactly the uid the call
\* was given, whatever other goroutines (other DeleteDevice calls included)
\* do on the same client meanwhile.
C9_RemoveCarriesOwnHash ==
    \A p \in Procs :
        op[p] = "DeleteDevice" =>
            \A i \in Removes(p) :
                /\ sent[p][i].body.data[1].hashcheck = read[p].Hash
                /\ sent[p][i].body.data[1].uids = <<arg[p].uid>>
                /\ sent[p][1].body.data = <<[uid |-> arg[p].uid]>>
                /\ read[p] \in remote.reads

\* Two DeleteDevice calls for different uids, the reads of which gave
\* different hashes, interleave: q's read went out between p's read and p's
\* remove, and both removes are out.
C9_Witness ==
    \E p, q \in Procs :
        /\ p # q
        /\ op[p] = "DeleteDevice" /\ op[q] = "DeleteDevice"
        /\ arg[p].uid # arg[q].uid
        /\ read[p].Hash # read[q].Hash
        /\ Removes(p) = {2} /\ Removes(q) = {2}
        /\ TidOf(p, 1) < TidOf(q, 1)
        /\ TidOf(q, 1) < TidOf(p, 2)

\* C10: DeleteDevice sends its remove request only as its second request,
\* after its read by uid was exchanged and decoded; when the read fails it
\* has returned an error and its only request is the read.
C10_RemoveOnlyAfterRead ==
    \A p \in Procs :
        op[p] = "DeleteDevice" =>
            /\ Removes(p) \subseteq {2}
            /\ Len(sent[p]) <= 2
            /\ Len(sent[p]) >= 1 => Methods(p)[1] = methodGetDevices
            /\ request[p].Method = methodRemoveDevices => read[p] \in remote.reads
            /\ read[p] = NoRead /\ err[p] # Nil =>
                  /\ pc[p] = "idle"
                  /\ ret[p].err # Nil
                  /\ err[p].is \subseteq ret[p].err.is
                  /\ Removes(p) = {}
                  /\ Len(sent[p]) = 1

\* The read of a DeleteDevice failed.
C10_WitnessFailed ==
    \E p \in Procs :
        /\ op[p] = "DeleteDevice"
        /\ read[p] = NoRead
        /\ err[p] = Wrap("unable to parse response from Zenoss", JsonError)
        /\ pc[p] = "idle"

\* The remove of a DeleteDevice went out after its read.
C10_Witness ==
    \E p \in Procs :
        /\ op[p] = "DeleteDevice"
        /\ Removes(p) = {2}
        /\ pc[p] = "idle"
        /\ ret[p].err = Nil

----
\* AddEvent.

\* The lengths of an AddEvent call's strings are within their ceilings.
WithinCeilings(a) ==
    /\ a.summary.len <= 255
    /\ a.message.len <= 4095
    /\ a.component.len <= 255
    /\ a.evKey.len <= 127

\* p's call has returned.
Returned(p, o) == op[p] = o /\ pc[p] = "idle"

\* p's call has returned after its k-th exchange was decoded.
Decoded(p, o, k) == Returned(p, o) /\ err[p] = Nil /\ Len(sent[p]) = k

\* C11: AddEvent issues a request exactly when the four lengths are within
\* their ceilings (255, 4095, 255, 127): a call with a length above its
\* ceiling returns an error without a request and without taking an id; a
\* call within the ceilings, the ceilings themselves included, goes on to
\* its one request.
C11_RequestIffWithinCeilings ==
    \A p \in Procs :
        op[p] = "AddEvent" =>
            /\ ~WithinCeilings(arg[p]) =>
                  /\ pc[p] = "idle"
                  /\ ret[p].err # Nil
                  /\ sent[p] = <<>>
            /\ WithinCeilings(arg[p]) =>
                  /\ pc[p] # "idle" \/ Len(sent[p]) = 1
                  /\ Len(sent[p]) <= 1
                  /\ \A i \in DOMAIN sent[p] : Methods(p)[i] = methodAddEvent

\* Only the event key is too long, by one.
C11_WitnessAbove ==
    \E p \in Procs :
        /\ Returned(p, "AddEvent")
        /\ arg[p].evKey.len = 128
        /\ arg[p].summary.len = 255
        /\ sent[p] = <<>>
        /\ ret[p].err # Nil

\* Every length at its ceiling: the request went out.
C11_Witness ==
    \E p \in Procs :
        /\ Returned(p, "AddEvent")
        /\ arg[p].summary.len = 255 /\ arg[p].message.len = 4095
        /\ arg[p].component.len = 255 /\ arg[p].evKey.len = 127
        /\ Len(sent[p]) = 1

\* The fixed fields of an AddEvent payload.
FixedFields(p) ==
    [summary |-> arg[p].summary, message |-> arg[p].message,
     device |-> arg[p].device, component |-> arg[p].component,
     monitor |-> Str(made.monitor, 3), severity |-> arg[p].severity,
     eventKey |-> arg[p].evKey, evclasskey |-> Str("", 0),
     evclass |-> arg[p].evClass]

\* C12: the one payload object of an AddEvent request maps every key of
\* extraData to its extra value and every fixed key that extraData does not
\* hold to its fixed value (monitor the client's, evclasskey empty), and has
\* no other key.
C12_ExtraDataOverFixedFields ==
    \A p \in Procs :
        op[p] = "AddEvent" =>
            \A i \in DOMAIN sent[p] :
                LET payload == sent[p][i].body.data[1]
                    extra == arg[p].extraData
                IN  /\ Len(sent[p][i].body.data) = 1
                    /\ DOMAIN payload = DOMAIN FixedFields(p) \cup DOMAIN extra
                    /\ \A k \in DOMAIN extra : payload[k] = extra[k]
                    /\ \A k \in DOMAIN FixedFields(p) \ DOMAIN extra :
                           payload[k] = FixedFields(p)[k]

\* extraData holds a fixed key (summary) and a key of its own.
C12_Witness ==
    \E p \in Procs :
        /\ op[p] = "AddEvent"
        /\ Len(sent[p]) = 1
        /\ DOMAIN arg[p].extraData = {"summary", "prop1"}
        /\ sent[p][1].body.data[1]["summary"] = Str("value", 5)
        /\ sent[p][1].body.data[1]["monitor"] = Str("mon", 3)

\* C13: AddEvent, its response decoded, returns an error when the response's
\* success flag is false and no error when it is true.
C13_SuccessFlagDecides ==
    \A p \in Procs :
        Decoded(p, "AddEvent", 1) =>
            /\ ~res[p].Success => ret[p].err # Nil
            /\ res[p].Success => ret[p].err = Nil

C13_Witness ==
    \E p \in Procs :
        /\ Decoded(p, "AddEvent", 1)
        /\ ~res[p].Success
        /\ ret[p].err = Printed("event could not be created", response[p])

C13_WitnessCreated ==
    \E p \in Procs :
        /\ Decoded(p, "AddEvent", 1)
        /\ res[p].Success
        /\ ret[p].err = Nil

----
\* ReadDevice.

\* C14: ReadDevice, its response decoded and successful, returns no device
\* and no error when the response reports no match, the one device and no
\* error when it reports exactly one, an error and no device when it reports
\* more than one; and it never returns a device out of a response that
\* holds more than one device.
C14_ReadDeviceByMatches ==
    \A p \in Procs :
        Decoded(p, "ReadDevice", 1) =>
            /\ read[p].Success /\ ZeroMatches(read[p]) => ret[p] = NoReturn
            /\ read[p].Success /\ OneMatch(read[p]) =>
                  ret[p] = [err |-> Nil, val |-> read[p].Devices[1]]
            /\ ManyMatches(read[p]) => ret[p].err # Nil /\ ret[p].val = NoValue
            /\ ret[p].val # NoValue => Len(read[p].Devices) <= 1

\* C15: ReadDevice, its response decoded, returns an error whenever the
\* response's success flag is false, whatever the number of matches.
C15_UnsuccessfulReadIsAnError ==
    \A p \in Procs :
        Decoded(p, "ReadDevice", 1) /\ ~read[p].Success => ret[p].err # Nil

----
\* The custom property operations.

\* C16: ReadCustomProperty, its response decoded, returns an error when the
\* success flag is false or totalCount is above one; otherwise no property
\* and no error when the response reports no match, and the one property
\* when it reports exactly one.
C16_ReadCustomPropertyByMatches ==
    \A p \in Procs :
        Decoded(p, "ReadCustomProperty", 1) =>
            /\ ~prop[p].Success \/ prop[p].Count > 1 =>
                  ret[p].err # Nil /\ ret[p].val = NoValue
            /\ prop[p].Success /\ prop[p].Count <= 1 => ret[p].err = Nil
            /\ prop[p].Success /\ prop[p].Count = 0 /\ prop[p].Data = <<>> =>
                  ret[p] = NoReturn
            /\ prop[p].Success /\ prop[p].Count = 1 /\ Len(prop[p].Data) = 1 =>
                  ret[p] = [err |-> Nil, val |-> prop[p].Data[1].Id]

\* An unsuccessful response that lists one property.
C16_Witness ==
    \E p \in Procs :
        /\ Decoded(p, "ReadCustomProperty", 1)
        /\ ~prop[p].Success
        /\ prop[p].Count = 1
        /\ Len(prop[p].Data) = 1
        /\ ret[p].err # Nil

\* A successful response with its one property.
C16_WitnessOne ==
    \E p \in Procs :
        /\ Decoded(p, "ReadCustomProperty", 1)
        /\ prop[p].Success
        /\ prop[p].Count = 1
        /\ ret[p].val = "cValue"

\* C17: DeleteCustomProperty issues a property read and then, as its second
\* and last request, a remove for the same uid and property id; when the
\* read fails it has returned that error and its only request is the read;
\* when the remove response says success=false it returns an error.
C17_ReadThenRemoveProperty ==
    \A p \in Procs :
        op[p] = "DeleteCustomProperty" =>
            /\ Len(sent[p]) <= 2
            /\ Len(sent[p]) >= 1 =>
                  /\ Methods(p)[1] = methodGetCustomProperties
                  /\ sent[p][1].body.data =
                        <<[uid |-> arg[p].uid, params |-> [id |-> arg[p].id]]>>
            /\ Len(sent[p]) = 2 =>
                  /\ Methods(p)[2] = methodDeleteCustomProperty
                  /\ sent[p][2].body.data = <<[uid |-> arg[p].uid, id |-> arg[p].id]>>
                  /\ TidOf(p, 1) < TidOf(p, 2)
                  /\ prop[p] \in remote.props
            /\ request[p].Method = methodDeleteCustomProperty /\ pc[p] # "idle" =>
                  err[p] = Nil
            /\ request[p].Method = methodGetCustomProperties /\ err[p] # Nil =>
                  /\ pc[p] = "idle"
                  /\ prop[p] = NoProp
                  /\ ret[p].err # Nil
                  /\ err[p].is \subseteq ret[p].err.is
                  /\ Len(sent[p]) = 1
            /\ Decoded(p, "DeleteCustomProperty", 2) =>
                  (ret[p].err = Nil <=> res[p].Success)

\* The read of a DeleteCustomProperty failed.
C17_Witness ==
    \E p \in Procs :
        /\ Returned(p, "DeleteCustomProperty")
        /\ request[p].Method = methodGetCustomProperties
        /\ err[p] = Flatten("error calling Zenoss", NetError)
        /\ Len(sent[p]) = 1

\* The remove of a DeleteCustomProperty was refused.
C17_WitnessRefused ==
    \E p \in Procs :
        /\ Decoded(p, "DeleteCustomProperty", 2)
        /\ ~res[p].Success
        /\ ret[p].err = New("remove custom property returned unsuccessful")

----
\* What every request carries.

\* The requests handed to client.Do by the calls in progress or last made.
Sent == UNION { { sent[p][i] : i \in DOMAIN sent[p] } : p \in Procs }

\* C18: a request carries Basic Authentication credentials exactly when the
\* username or the password the client was built with is not empty.
C18_AuthorizationIffCredentials ==
    \A q \in Sent :
        "Authorization" \in DOMAIN q.header
            <=> (made.username # "" \/ made.password # "")

\* The path with one trailing /zport/dmd removed.
Normalized(path) ==
    LET n == Len(path)
    IN  IF n >= 2 /\ SubSeq(path, n - 1, n) = <<"zport", "dmd">>
        THEN SubSeq(path, 1, n - 2)
        ELSE path

\* /zport/dmd appears twice in a row in the path.
Doubled(path) ==
    \E k \in 1..(Len(path) - 3) :
        SubSeq(path, k, k + 3) = <<"zport", "dmd", "zport", "dmd">>

\* The base URI with /zport/dmd appended to its path.
WithSuffix(baseURI) == [baseURI EXCEPT !.path = @ \o <<"zport", "dmd">>]

\* The target a client built with the base URI gives the request q.
TargetOf(baseURI, q) ==
    Target(NewClient(baseURI, "", "", "").url, q.url.path[Len(q.url.path)])

\* A client built with the client's base URI and the suffix after it would
\* have sent q to the same target.
SameWithSuffix(q) == TargetOf(WithSuffix(made.baseURI), q) = q.url

\* When the client's base URI ends in /zport/dmd, a client built with that
\* base URI less the suffix would have sent q to the same target.
SameWithoutSuffix(q) ==
    Normalized(made.baseURI.path) # made.baseURI.path
        => TargetOf([made.baseURI EXCEPT !.path = Normalized(@)], q) = q.url

\* Every request goes to the normalized base followed by
\* /zport/dmd/<router-sub-path>.
TargetsAreNormalized ==
    \A q \in Sent :
        /\ q.url.host = made.baseURI.host
        /\ q.url.path = Normalized(made.baseURI.path)
                           \o <<"zport", "dmd", q.url.path[Len(q.url.path)]>>
        /\ q.url.path[Len(q.url.path)] \in
              {pathDeviceRouter, pathPropertiesRouter, pathEvconsoleRouter}

\* C19 as stated: every request goes to the normalized base followed by
\* /zport/dmd/<router-sub-path>; any base URL with the suffix and the same
\* base URL without it give the same target; and /zport/dmd never appears
\* twice in a row in a target.
C19_NeverTwiceInARow ==
    /\ TargetsAreNormalized
    /\ \A q \in Sent : SameWithSuffix(q) /\ SameWithoutSuffix(q)
    /\ \A q \in Sent : ~Doubled(q.url.path)

\* C19 amended: every request goes to the normalized base followed by
\* /zport/dmd/<router-sub-path>; a base URL with the suffix and the same
\* base URL without it give the same target when the one without it does
\* not itself end in /zport/dmd; and /zport/dmd appears twice in a row in a
\* target only when it does so in the configured base path.
C19_OneSuffixRemoved ==
    /\ TargetsAreNormalized
    /\ \A q \in Sent :
          /\ Normalized(made.baseURI.path) = made.baseURI.path => SameWithSuffix(q)
          /\ Normalized(Normalized(made.baseURI.path)) = Normalized(made.baseURI.path)
                => SameWithoutSuffix(q)
    /\ \A q \in Sent : Doubled(q.url.path) => Doubled(made.baseURI.path)

\* A client built with https://zenoss.example/zport/dmd read a device at
\* https://zenoss.example/zport/dmd/device_router.
C19_Witness ==
    \E q \in Sent :
        /\ made.baseURI.path = <<"zport", "dmd">>
        /\ q.url = [host |-> "zenoss.example",
                    path |-> <<"zport", "dmd", "device_router">>]
        /\ q.body.method = methodGetDevices

\* The router, action and method combinations of the API.
Combinations ==
    ({pathDeviceRouter} \X {actionDeviceRoute}
        \X {methodGetDevices, methodAddDevice, methodRemoveDevices, methodSetInfo})
    \cup ({pathPropertiesRouter} \X {actionPropertiesRouter}
        \X {methodGetCustomProperties, methodUpdateCustomProperty,
            methodDeleteCustomProperty})
    \cup ({pathEvconsoleRouter} \X {actionEventsRouter} \X {methodAddEvent})

\* C20: every request sent goes to a router with that router's action and
\* one of its methods (device_router: DeviceRouter with getDevices,
\* addDevice, removeDevices, setInfo; properties_router: PropertiesRouter
\* with getCustomProperties, update, remove; evconsole_router: EventsRouter
\* with add_event), and its data list holds exactly one payload object.
C20_FixedCombinations ==
    \A q \in Sent :
        /\ <<q.url.path[Len(q.url.path)], q.body.action, q.body.method>> \in Combinations
        /\ Len(q.body.data) = 1
        /\ <<q.body.action, q.body.method>> \in
              { <<"DeviceRouter", "getDevices">>, <<"DeviceRouter", "addDevice">>,
                <<"DeviceRouter", "removeDevices">>, <<"DeviceRouter", "setInfo">>,
                <<"PropertiesRouter", "getCustomProperties">>,
                <<"PropertiesRouter", "update">>, <<"PropertiesRouter", "remove">>,
                <<"EventsRouter", "add_event">> }

\* A DeleteCustomProperty sent its read and its remove to properties_router.
C20_Witness ==
    \E p \in Procs :
        /\ Returned(p, "DeleteCustomProperty")
        /\ Len(sent[p]) = 2
        /\ sent[p][2].body.method = "remove"
        /\ sent[p][2].url.path[Len(sent[p][2].url.path)] = "properties_router"

----
\* C21: the mutex of the tid counter is held only between nextTid's Lock and
\* its deferred Unlock: a goroutine that holds it is at the increment, no
\* goroutine holds it while its HTTP exchange is in flight or while it waits
\* in CreateDevice's poll, and so, when no goroutine is at the increment,
\* the mutex is free for the next caller however long an exchange takes.
C21_LockOnlyAroundIncrement ==
    /\ \A p \in Procs : mTid = p => pc[p] = "locked"
    /\ \A p \in Procs : pc[p] \in {"flight", "select"} => mTid # p
    /\ (\A p \in Procs : pc[p] # "locked") => MutexFree

\* One goroutine's exchange is in flight while the other holds the mutex and
\* has obtained the next id.
C21_Witness ==
    /\ pc["g1"] = "flight"
    /\ pc["g2"] = "locked"
    /\ mTid = "g2"
    /\ tid = request["g1"].Tid + 1

----
\* The operations that call doRequest once, and those that call it twice.
OneRequestOps ==
    {"AddEvent", "ReadDevice", "UpdateDeviceProductionState", "ReadCustomProperty",
     "UpdateCustomProperty"}

TwoRequestOps == {"DeleteDevice", "DeleteCustomProperty"}

\* C22: a call of AddEvent, ReadDevice, UpdateDeviceProductionState,
\* ReadCustomProperty or UpdateCustomProperty issues at most one HTTP
\* request, a call of DeleteDevice or DeleteCustomProperty at most two,
\* whatever the outcome; no call sends a request of the same method twice, so
\* nothing is sent again after a transport error, a decode error or an
\* unsuccessful response.
C22_NoRetries ==
    \A p \in Procs :
        /\ op[p] \in OneRequestOps => Len(sent[p]) <= 1
        /\ op[p] \in TwoRequestOps => Len(sent[p]) <= 2
        /\ op[p] \in OneRequestOps \cup TwoRequestOps =>
              /\ \A i, j \in DOMAIN sent[p] :
                    i # j => sent[p][i].body.method # sent[p][j].body.method
              /\ err[p] # Nil => pc[p] = "idle"

\* An UpdateCustomProperty has returned after one request that was answered
\* unsuccessful.
C22_Witness ==
    /\ Returned("g1", "UpdateCustomProperty")
    /\ err["g1"] = Nil
    /\ ~res["g1"].Success
    /\ ret["g1"].err # Nil
    /\ Len(sent["g1"]) = 1

\* A DeleteDevice has returned after two requests, the second of which failed
\* in transport.
C22_WitnessTwo ==
    /\ Returned("g1", "DeleteDevice")
    /\ err["g1"] = Flatten("error calling Zenoss", NetError)
    /\ Len(sent["g1"]) = 2

----
\* C23: when the context is cancelled while an exchange is in flight, the
\* operation returns a cancellation error: the error it returns has the
\* context's error in its chain of causes.
C23_CancelledExchangeIsCancellation ==
    \A p \in Procs :
        pc[p] = "idle" /\ ctxDone[p] /\ err[p] # Nil
            => "context canceled" \in ret[p].err.is

----
\* The success flag of the response decoded last in p's call.
LastSuccess(p) ==
    IF request[p].Method = methodGetDevices THEN read[p].Success
    ELSE IF request[p].Method = methodGetCustomProperties THEN prop[p].Success
    ELSE res[p].Success

\* p's call has returned an error after decoding a response whose success
\* flag is false (in CreateDevice: the response to the add).
FailedOnFlag(p) ==
    /\ pc[p] = "idle"
    /\ Len(sent[p]) >= 1
    /\ err[p] = Nil
    /\ ~LastSuccess(p)
    /\ ret[p].err # Nil
    /\ op[p] = "CreateDevice" => r[p] = 0

\* C24: every error returned because a response's success flag is false
\* carries the action, the method and the transaction id of the decoded
\* response, whatever the operation.
C24_FlagErrorCarriesEnvelope ==
    \A p \in Procs :
        FailedOnFlag(p) =>
            /\ ret[p].err.resp.Action = response[p].Action
            /\ ret[p].err.resp.Method = response[p].Method
            /\ ret[p].err.resp.Tid = response[p].Tid

----
\* How a CreateDevice that has begun to poll may have returned: with the
\* device of a match, at the ceiling, with an error, or cancelled.
LeftPollLoop(p) ==
    \/ ret[p].err = Nil /\ ret[p].val \in { read[p].Devices[i] : i \in DOMAIN read[p].Devices }
    \/ /\ ret[p].err = Named("no devices returned after creation of", arg[p].dev.Name)
       /\ r[p] = PollLimit + 1
    \/ ret[p].err = Named("multiple devices returned after creation of", arg[p].dev.Name)
    \/ ret[p].err = Wrap("unable to read device after creation", err[p]) /\ err[p] # Nil
    \/ ret[p].err = Canceled /\ ctxDone[p]

\* C25: every call of every public operation returns in the end, provided
\* every HTTP exchange comes to an end; CreateDevice polls at most
\* PollLimit + 1 times and leaves its loop by a match, the ceiling, an error
\* or cancellation.
C25_EveryCallReturns ==
    /\ \A p \in Procs : (pc[p] # "idle") ~> (pc[p] = "idle")
    /\ [](\A p \in Procs :
            op[p] = "CreateDevice" =>
                /\ r[p] <= PollLimit + 1
                /\ Len(sent[p]) <= PollLimit + 2
                /\ pc[p] = "idle" /\ Len(sent[p]) >= 2 => LeftPollLoop(p))

\* A CreateDevice has returned at the ceiling of its poll loop, after seven
\* exchanges.
C25_Witness ==
    /\ Returned("g1", "CreateDevice")
    /\ Len(sent["g1"]) = PollLimit + 2
    /\ r["g1"] = PollLimit + 1
    /\ ret["g1"].err = Named("no devices returned after creation of", arg["g1"].dev.Name)

----
\* C26: DeleteDevice does not look at the match count of its read: once the
\* read is decoded the call goes on to the remove, also when the read matched
\* no device; the remove then names the call's uid with the hash of that
\* read, and what the call returns is decided by the remove's exchange alone:
\* an error when it failed, and otherwise success exactly when the remove
\* response's success flag is set.
C26_RemoveAfterEmptyRead ==
    \A p \in Procs :
        op[p] = "DeleteDevice" =>
            /\ pc[p] = "idle" /\ Len(sent[p]) = 1 => err[p] # Nil /\ read[p] = NoRead
            /\ Len(sent[p]) = 2 =>
                  /\ sent[p][2].body.method = methodRemoveDevices
                  /\ sent[p][2].body.data[1].uids = <<arg[p].uid>>
                  /\ sent[p][2].body.data[1].hashcheck = read[p].Hash
            /\ Decoded(p, "DeleteDevice", 2) =>
                  (ret[p].err = Nil <=> res[p].Success)

\* A DeleteDevice whose read matched no device has sent its remove with that
\* read's hash, and returned success on the remove response's flag.
C26_Witness ==
    /\ Decoded("g1", "DeleteDevice", 2)
    /\ ZeroMatches(read["g1"])
    /\ sent["g1"][2].body.data[1].hashcheck = read["g1"].Hash
    /\ res["g1"].Success
    /\ ret["g1"].err = Nil

\* The same, with the remove answered unsuccessful.
C26_WitnessRefused ==
    /\ Decoded("g1", "DeleteDevice", 2)
    /\ ZeroMatches(read["g1"])
    /\ ~res["g1"].Success
    /\ ret["g1"].err = New("remove device returned unsuccessful")

----
\* C27: when a poll read of CreateDevice is answered with success false, the
\* call fails with the 'read of added device returned unsuccessful' error: it
\* neither returns a device from that response nor takes it for zero results
\* and polls again.
C27_UnsuccessfulPollIsAnError ==
    \A p \in Procs :
        /\ op[p] = "CreateDevice"
        /\ r[p] >= 1
        /\ err[p] = Nil
        /\ read[p] \in remote.reads
        /\ ~read[p].Success
        => /\ pc[p] = "idle"
           /\ ret[p].err = New("read of added device returned unsuccessfull")
           /\ ret[p].val = NoValue

----
\* C28: an AddEvent call rejected by the length checks leaves the client as
\* it was: the step that rejects it changes neither the counter, the mutex
\* nor the client's configuration and sends nothing; the counter always
\* equals the number of ids handed out (one more while nextTid is under
\* way), these are 1, 2, ... in order, and so the next request carries the id
\* the rejected call would have used.
C28_RejectedEventTakesNoTid ==
    /\ [][\A p \in Procs :
            pc[p] = "idle" /\ pc'[p] = "idle" /\ op'[p] = "AddEvent" /\ calls'[p] < calls[p]
                => /\ ret'[p].err = EventValidation(arg'[p])
                   /\ ret'[p].err # Nil
                   /\ tid' = tid
                   /\ mTid' = mTid
                   /\ conf' = conf
                   /\ issued' = issued
                   /\ sent'[p] = <<>>]_vars
    /\ [](/\ tid = Len(issued) + (IF \E p \in Procs : pc[p] = "locked" THEN 1 ELSE 0)
          /\ \A k \in DOMAIN issued : issued[k] = k)

\* The first request of a goroutine's last call carries the id 1: the call
\* before it was an AddEvent rejected by the length checks.
C28_Witness ==
    /\ calls["g1"] = 0
    /\ pc["g1"] = "flight"
    /\ Len(sent["g1"]) = 1
    /\ sent["g1"][1].body.tid = 1
    /\ tid = 1

----
\* C29: whatever the decoded response holds, every call returns with a value
\* or an error; no goroutine ends in a panic, neither by indexing an empty
\* list nor, in either AddEvent, by asserting the type of a success entry
\* that is missing or no bool.
C29_NoPanic == \A p \in Procs : pc[p] # "panic"

----
\* The second run has returned, and it heard what the first run heard: the
\* same result objects, failures and cancellation in the same order.
HeardTheSame ==
    /\ first.taken
    /\ pc["g1"] = "idle"
    /\ calls["g1"] = 0
    /\ heard["g1"] = first.heard

\* An error without the response envelope its message prints.
Unprinted(e) == [e EXCEPT !.resp = NoResponse]

----
\* A call that heard h got, first of all, a body that decoded.
ReadDecoded(h) == Len(h) >= 1 /\ h[1].kind = "json"

\* What a call heard after its first response.
After(h) == SubSeq(h, 2, Len(h))

\* C31: what DeleteCustomProperty does is independent of what its read
\* response holds, once that response decodes: the remove for the call's uid
\* and property id is sent whatever the read reports, and two runs whose read
\* responses decode, with any content, and which hear the same from then on
\* issue the same requests and return the same result.
C31_ReadContentChangesNothing ==
    /\ \A p \in Procs :
          op[p] = "DeleteCustomProperty" /\ ReadDecoded(heard[p]) =>
              /\ Len(sent[p]) = 2 \/ pc[p] \in {"nextTid", "locked"}
              /\ Len(sent[p]) = 2 =>
                    /\ sent[p][2].body.method = methodDeleteCustomProperty
                    /\ sent[p][2].body.data = <<[uid |-> arg[p].uid, id |-> arg[p].id]>>
    /\ /\ first.taken
       /\ pc["g1"] = "idle"
       /\ calls["g1"] = 0
       /\ op["g1"] = "DeleteCustomProperty"
       /\ ReadDecoded(heard["g1"])
       /\ ReadDecoded(first.heard)
       /\ After(heard["g1"]) = After(first.heard)
       => /\ ret["g1"] = first.ret
          /\ sent["g1"] = first.sent
          /\ Len(heard["g1"]) >= 2 /\ heard["g1"][Len(heard["g1"])].kind = "json" =>
                (ret["g1"].err = Nil <=> res["g1"].Success)

\* Two runs of a DeleteCustomProperty have returned success on the remove
\* response: the read of the first reported one property, the read of the
\* second was unsuccessful.
C31_Witness ==
    /\ first.taken
    /\ pc["g1"] = "idle"
    /\ calls["g1"] = 0
    /\ op["g1"] = "DeleteCustomProperty"
    /\ ReadDecoded(heard["g1"])
    /\ ReadDecoded(first.heard)
    /\ After(heard["g1"]) = After(first.heard)
    /\ first.heard[1].result[1].Success
    /\ first.heard[1].result[1].Count = 1
    /\ ~heard["g1"][1].result[1].Success
    /\ Len(sent["g1"]) = 2
    /\ ret["g1"].err = Nil

\* The same, the read of the second run reporting several matches and the
\* remove refused in both.
C31_WitnessSeveral ==
    /\ first.taken
    /\ pc["g1"] = "idle"
    /\ calls["g1"] = 0
    /\ op["g1"] = "DeleteCustomProperty"
    /\ ReadDecoded(heard["g1"])
    /\ ReadDecoded(first.heard)
    /\ After(heard["g1"]) = After(first.heard)
    /\ first.heard[1].result[1].Count = 0
    /\ heard["g1"][1].result[1].Count = 2
    /\ Len(heard["g1"][1].result[1].Data) = 2
    /\ ret["g1"].err = New("remove custom property returned unsuccessful")

====
